---- MODULE Spec2Model ----
(***************************************************************************)
(* A model of code-index-mcp: the shallow index manager with its lenient   *)
(* glob search, the file-discovery service on top of it, and the symbol    *)
(* table built by the Go parsing strategy.                                 *)
(*                                                                         *)
(* Strings are sequences of one-character strings.  The alphabet holds a   *)
(* lower/upper case pair, the path separator, the glob characters, the     *)
(* dot (a regex metacharacter, and half of the ./ prefix), the backslash   *)
(* and the newline (the whitespace character that strip() removes, and the *)
(* one character that '.' and '$' of Python's re treat specially).         *)
(***************************************************************************)
EXTENDS Integers, Sequences, FiniteSets, TLC

\* ------------------------------------------------------------------ bounds

MaxPatLen == 3

MaxResults == 2

MaxServicePatLen == 2

MaxGoLines == 3

MaxPgEntries == 2

\* the longest Go file with import declarations, in lines
MaxGoImportLines == 4

\* the most top-level declarations of a Kotlin file
MaxKtDecls == 3

\* -------------------------------------------------------------- characters

NL == "\n"

BS == "\\"

Alphabet == {"a", "A", "/", ".", "*", "?", NL, BS}

Strings == UNION {[1..n -> Alphabet] : n \in 0..MaxPatLen}

\* Python values passed where a str is expected, tagged with their type.
PyStr(s) == [type |-> "str", val |-> s]

PyNone == [type |-> "NoneType", val |-> <<"N", "o", "n", "e">>]

PyInt7 == [type |-> "int", val |-> <<"7">>]

PatternArgs == {PyStr(s) : s \in Strings} \cup {PyNone, PyInt7}

\* The patterns handed to the service.
ServicePatternArgs ==
    {PyStr(s) : s \in UNION {[1..n -> Alphabet] : n \in 0..MaxServicePatLen}}
    \cup {PyNone, PyInt7}

IsInstanceStr(p) == p.type = "str"

\* str(pattern)
Str(p) == p.val

\* ------------------------------------------------------- string operations

IsSpace(c) == c = NL

RECURSIVE LStrip(_)
LStrip(s) == IF Len(s) > 0 /\ IsSpace(s[1]) THEN LStrip(Tail(s)) ELSE s

RECURSIVE RStrip(_)
RStrip(s) ==
    IF Len(s) > 0 /\ IsSpace(s[Len(s)]) THEN RStrip(SubSeq(s, 1, Len(s) - 1)) ELSE s

\* str.strip()
Strip(s) == RStrip(LStrip(s))

\* str.replace('\\\\', '/'): non-overlapping occurrences of two backslashes,
\* left to right.
RECURSIVE ReplaceDoubleBS(_)
ReplaceDoubleBS(s) ==
    IF Len(s) = 0 THEN <<>>
    ELSE IF Len(s) >= 2 /\ s[1] = BS /\ s[2] = BS
         THEN <<"/">> \o ReplaceDoubleBS(SubSeq(s, 3, Len(s)))
         ELSE <<s[1]>> \o ReplaceDoubleBS(Tail(s))

\* str.replace('\\', '/')
ReplaceBS(s) == [i \in 1..Len(s) |-> IF s[i] = BS THEN "/" ELSE s[i]]

StartsWith(s, pre) == Len(s) >= Len(pre) /\ SubSeq(s, 1, Len(pre)) = pre

Contains(s, c) == \E i \in 1..Len(s) : s[i] = c

\* str.lower() of one character, for the upper-case letters that occur.
Lower(c) ==
    CASE c = "A" -> "a"
      [] c = "E" -> "e"
      [] c = "G" -> "g"
      [] c = "O" -> "o"
      [] c = "R" -> "r"
      [] c = "S" -> "s"
      [] c = "U" -> "u"
      [] OTHER -> c

\* find_files, the normalization of the pattern.
NormalizePattern(pattern) ==
    LET stripped == Strip(pattern)
        orStar   == IF stripped = <<>> THEN <<"*">> ELSE stripped
        norm     == ReplaceBS(ReplaceDoubleBS(orStar))
    IN  IF StartsWith(norm, <<".", "/">>) THEN SubSeq(norm, 3, Len(norm)) ELSE norm

\* ------------------------------------------------------------------- globs

Special == {".", "^", "$", "+", "{", "}", "[", "]", "|", "(", ")"}

\* One piece of the regex source that _compile_glob_regex appends to out.
DotStar == [t |-> "dotstar", c |-> ""]

NoSlashStar == [t |-> "noslashstar", c |-> ""]

NoSlash == [t |-> "noslash", c |-> ""]

Escaped(c) == [t |-> "escaped", c |-> c]

Raw(c) == [t |-> "raw", c |-> c]

RECURSIVE CompileFrom(_, _)
CompileFrom(pattern, i) ==
    IF i > Len(pattern) THEN <<>>
    ELSE LET c == pattern[i] IN
         IF c = "*"
         THEN IF i + 1 <= Len(pattern) /\ pattern[i + 1] = "*"
              THEN <<DotStar>> \o CompileFrom(pattern, i + 2)
              ELSE <<NoSlashStar>> \o CompileFrom(pattern, i + 1)
         ELSE IF c = "?" THEN <<NoSlash>> \o CompileFrom(pattern, i + 1)
         ELSE IF c \in Special THEN <<Escaped(c)>> \o CompileFrom(pattern, i + 1)
         ELSE <<Raw(c)>> \o CompileFrom(pattern, i + 1)

\* _compile_glob_regex: the compiled pattern, '^' + ''.join(out) + '$' with
\* the IGNORECASE flag or none.
_compile_glob_regex(pattern, case_insensitive) ==
    [toks |-> CompileFrom(pattern, 1), ci |-> case_insensitive]

\* Python's re on one character: a literal (escaped, or a character that is no
\* metacharacter) matches itself, under IGNORECASE up to case; an unescaped
\* dot matches anything but a newline.
CharMatches(tok, ch, ci) ==
    IF tok.t = "raw" /\ tok.c = "." THEN ch # NL
    ELSE IF ci THEN Lower(tok.c) = Lower(ch) ELSE tok.c = ch

\* '$' without MULTILINE: at the end of the string, or just before a newline
\* that ends the string.
AtDollar(s, j) == j = Len(s) + 1 \/ (j = Len(s) /\ s[j] = NL)

RECURSIVE MatchFrom(_, _, _, _)
MatchFrom(regex, i, s, j) ==
    IF i > Len(regex.toks) THEN AtDollar(s, j)
    ELSE LET tok == regex.toks[i] IN
         CASE tok.t = "dotstar" ->
                \E k \in j..(Len(s) + 1) :
                    /\ \A m \in j..(k - 1) : s[m] # NL
                    /\ MatchFrom(regex, i + 1, s, k)
           [] tok.t = "noslashstar" ->
                \E k \in j..(Len(s) + 1) :
                    /\ \A m \in j..(k - 1) : s[m] # "/"
                    /\ MatchFrom(regex, i + 1, s, k)
           [] tok.t = "noslash" ->
                j <= Len(s) /\ s[j] # "/" /\ MatchFrom(regex, i + 1, s, j + 1)
           [] OTHER ->
                j <= Len(s) /\ CharMatches(tok, s[j], regex.ci)
                            /\ MatchFrom(regex, i + 1, s, j + 1)

\* The regex searched anywhere in the path: no anchor at its start.
RegexSearch(regex, f) == \E j \in 1..(Len(f) + 1) : MatchFrom(regex, 1, f, j)

\* regex.match(f) is not None
RegexMatch(regex, f) == MatchFrom(regex, 1, f, 1)

\* The comprehension with each match put in front of the earlier ones.
RECURSIVE FilterReversed(_, _)
FilterReversed(files, regex) ==
    IF files = <<>> THEN <<>>
    ELSE FilterReversed(Tail(files), regex)
         \o (IF RegexMatch(regex, Head(files)) THEN <<Head(files)>> ELSE <<>>)

\* [f for f in files if regex.match(f) is not None]
RECURSIVE Filter(_, _)
Filter(files, regex) ==
    IF files = <<>> THEN <<>>
    ELSE (IF RegexMatch(regex, Head(files)) THEN <<Head(files)>> ELSE <<>>)
         \o Filter(Tail(files), regex)

\* ------------------------------------------------------- FileSearchResult

FileSearchResult(files, match_type, original_pattern, applied_pattern) ==
    [files |-> files, match_type |-> match_type,
     original_pattern |-> original_pattern, applied_pattern |-> applied_pattern]

CaseInsensitiveNote == <<" (case-insensitive)">>

\* The non-string branch reporting no_match.
InvalidResultNoMatch(pattern) == FileSearchResult(<<>>, "no_match", Str(pattern), <<>>)

\* find_files, the branch of a non-string pattern.
InvalidResult(pattern) == FileSearchResult(<<>>, "invalid", Str(pattern), <<>>)

\* The lenient stages tried for every pattern.
UsesLenientAlways(norm) == TRUE

\* find_files, the condition under which the lenient stages are tried.
UsesLenient(norm) == ~Contains(norm, "/") /\ ~StartsWith(norm, <<"*", "*", "/">>)

NoMatch(original, norm) == FileSearchResult(<<>>, "no_match", original, norm)

\* The lenient stages in another order: case-insensitive root before recursive.
LenientStagesRootFirst(files, original, norm) ==
    LET lenient == <<"*", "*", "/">> \o norm
        rec     == Filter(files, _compile_glob_regex(lenient, FALSE))
        ciRoot  == Filter(files, _compile_glob_regex(norm, TRUE))
        ciRec   == Filter(files, _compile_glob_regex(lenient, TRUE))
    IN  IF ciRoot # <<>>
        THEN FileSearchResult(ciRoot, "case_insensitive_root", original,
                              norm \o CaseInsensitiveNote)
        ELSE IF rec # <<>> THEN FileSearchResult(rec, "recursive", original, lenient)
        ELSE IF ciRec # <<>>
        THEN FileSearchResult(ciRec, "case_insensitive_recursive", original,
                              lenient \o CaseInsensitiveNote)
        ELSE NoMatch(original, norm)

\* find_files, the lenient stages after the exact stage found nothing.
LenientStages(files, original, norm) ==
    LET lenient == <<"*", "*", "/">> \o norm
        rec     == Filter(files, _compile_glob_regex(lenient, FALSE))
        ciRoot  == Filter(files, _compile_glob_regex(norm, TRUE))
        ciRec   == Filter(files, _compile_glob_regex(lenient, TRUE))
    IN  IF rec # <<>> THEN FileSearchResult(rec, "recursive", original, lenient)
        ELSE IF ciRoot # <<>>
        THEN FileSearchResult(ciRoot, "case_insensitive_root", original,
                              norm \o CaseInsensitiveNote)
        ELSE IF ciRec # <<>>
        THEN FileSearchResult(ciRec, "case_insensitive_recursive", original,
                              lenient \o CaseInsensitiveNote)
        ELSE NoMatch(original, norm)

\* ShallowIndexManager.find_files on the list `files` (self._file_list or []).
FindFilesIn(files, pattern) ==
    IF ~IsInstanceStr(pattern) THEN InvalidResult(pattern)
    ELSE LET original == pattern.val
             norm     == NormalizePattern(original)
             exact    == Filter(files, _compile_glob_regex(norm, FALSE))
         IN  IF norm = <<"*">> THEN FileSearchResult(files, "all", original, <<"*">>)
             ELSE IF exact # <<>> THEN FileSearchResult(exact, "exact", original, norm)
             ELSE IF UsesLenient(norm) THEN LenientStages(files, original, norm)
             ELSE NoMatch(original, norm)

\* ------------------------------------------------------------ the projects

\* Project-relative paths, written as sequences of characters.
f_A == <<"A">>

f_a_a == <<"a", "/", "a">>

f_a_A == <<"a", "/", "A">>

f_a_nl == <<"a", NL>>

f_A_A == <<"A", "/", "A">>

f_a_dotA == <<"a", "/", ".", "A">>

\* The directories that exist, and the files under each in the order of the
\* directory walk.
ProjectDirs == {"p1", "p2"}

Tree(dir) ==
    IF dir = "p1" THEN <<f_a_a, f_A, f_a_A, f_a_nl>> ELSE <<f_A, f_A_A, f_a_dotA>>

\* JSONIndexBuilder.build_shallow_file_list of the builder made for `dir`.
build_shallow_file_list(dir) == Tree(dir)

\* project_path arguments: Python values tagged with their type.
PathArgs ==
    {[type |-> "NoneType", val |-> "None"]}
    \cup {[type |-> "str", val |-> v] : v \in {"", " ", "p1", " p1 ", "p2", "missing"}}

\* str.strip() of a path argument.
StripPath(v) == IF v = " " THEN "" ELSE IF v = " p1 " THEN "p1" ELSE v

\* os.path.isdir
IsDir(v) == v \in ProjectDirs

\* additional_excludes, given or not.
ExcludesArgs ==
    {[given |-> FALSE, names |-> {}]}
    \cup {[given |-> TRUE, names |-> E] : E \in {{}, {"a"}}}

\* A persisted document: no file, or the JSON value of the file.
NoFile == [exists |-> FALSE, isList |-> FALSE, items |-> <<>>]

ListDoc(items) == [exists |-> TRUE, isList |-> TRUE, items |-> items]

\* A document left by an earlier writer: paths that are not normalized, an
\* entry that is no string, and a path twice.
OldDoc ==
    ListDoc(<<PyStr(<<".", "/", "A">>), PyStr(<<"a", BS, BS, "a">>), PyInt7,
              PyStr(<<"a", "/", "/", "A">>), PyStr(<<".", "/", "A">>)>>)

\* Optional[List[str]]
NoneList == [isNone |-> TRUE, items |-> <<>>]

SomeList(items) == [isNone |-> FALSE, items |-> items]

\* self._file_list or []
OrEmpty(l) == l.items

\* max_results arguments.
MaxResultsNone == [type |-> "NoneType", val |-> 0]

MaxResultsArgs == {MaxResultsNone} \cup {[type |-> "int", val |-> m] : m \in -1..MaxResults}

\* ---------------------------------------------------- the deep index data

\* SCHEMA_VERSION of the store, as the text that metadata holds.
SCHEMA_VERSION == "1"

\* The three tables of the schema.
StoreTables == {"metadata", "files", "symbols"}

\* The rows of the files table and of the symbols table.
Rows(files, symbols) == [files |-> files, symbols |-> symbols]

NoRows == Rows({}, {})

FileRow(path, language) == [path |-> path, language |-> language]

SymbolRow(file, name) == [id |-> <<file, "::", name>>, file |-> file, name |-> name]

\* A store: its tables, metadata.schema_version ("missing" when there is no
\* such row) and its rows.
Store(tables, schema_version, rows) ==
    [tables |-> tables, schema_version |-> schema_version, rows |-> rows]

\* No database file yet.
NoStore == Store({}, "missing", NoRows)

\* The rows an earlier build left.
StaleRows == Rows({FileRow("old.py", "python")}, {SymbolRow("old.py", "bar")})

\* The stores a manager may find: none, an empty one, one an earlier build of
\* this version filled, and one written under another schema version.
FoundStores ==
    {NoStore,
     Store(StoreTables, SCHEMA_VERSION, NoRows),
     Store(StoreTables, SCHEMA_VERSION, StaleRows),
     Store(StoreTables, "0", StaleRows)}

\* A file of the project: where its first NUL byte is ("none", in the "first"
\* read chunk or "later"), whether it is larger than the maximum, its
\* language by extension and the symbols its strategy extracts from it.
DeepFile(path, nul, oversize, language, symbols) ==
    [path |-> path, nul |-> nul, oversize |-> oversize, language |-> language,
     symbols |-> symbols]

\* Two versions of the project tree, in walk order.
DeepTreeV1 ==
    <<DeepFile("main.py", "none", FALSE, "python", {"foo"}),
      DeepFile("binary.index", "first", FALSE, "unknown", {}),
      DeepFile("notes.txt", "later", FALSE, "unknown", {})>>

DeepTreeV2 ==
    <<DeepFile("blob.py", "first", FALSE, "python", {"q"}),
      DeepFile("main.py", "none", FALSE, "python", {"foo", "baz"}),
      DeepFile("big.py", "none", TRUE, "python", {"x"})>>

\* The files parsed so far and the count of read errors.
NoAcc == [files |-> <<>>, io_errors |-> 0]

NoResult == [call |-> "none", val |-> FALSE, exc |-> ""]

NoStats == [read |-> FALSE, indexed_files |-> 0, symbol_count |-> 0]

\* ------------------------------------------------- search results data

\* The paths of the raw result map.
SearchPaths == {<<"a", "/", "b">>, <<"a", ".", "b">>}

\* ord(c) of the characters of those paths.
Ord(c) ==
    CASE c = "." -> 46
      [] c = "/" -> 47
      [] c = "a" -> 97
      [] OTHER -> 98

\* (line, text) entries of a file.
SearchEntries == {[line |-> 3, text |-> "first"], [line |-> 12, text |-> "second"]}

\* The per-file lists, in any order and with repeats.
EntryLists == UNION {[1..n -> SearchEntries] : n \in 0..MaxPgEntries}

\* The raw result maps, as the sequence of their items in key order: no path
\* twice, up to two files.
RawResults ==
    {<<>>}
    \cup {<<[path |-> q, entries |-> e]>> : q \in SearchPaths, e \in EntryLists}
    \cup {<<[path |-> q[1], entries |-> e[1]], [path |-> q[2], entries |-> e[2]]>> :
             q \in {x \in SearchPaths \X SearchPaths : x[1] # x[2]},
             e \in EntryLists \X EntryLists}

\* max_results: None or an int.
PgNone == [given |-> FALSE, val |-> 0]

PgInt(m) == [given |-> TRUE, val |-> m]

NoPgIn == [raw |-> <<>>, start_index |-> 0, max_results |-> PgNone]

NoPgOut == [rows |-> <<>>,
            pagination |-> [total_matches |-> 0, returned |-> 0, start_index |-> 0,
                            end_index |-> 0, has_more |-> FALSE, max_results |-> PgNone]]

\* ------------------------------------------------------------------- state

VARIABLES
    project_path,   \* ShallowIndexManager.project_path ("None" or a directory)
    index_builder,  \* the directory the JSONIndexBuilder was made for, or "None"
    temp_dir,       \* the per-project temp directory, named by its project
    index_path,     \* the document's path, named by its project
    file_list,      \* ShallowIndexManager._file_list
    disk,           \* the persisted document of each project
    base_path,      \* the service context's base_path ("" when no project)
    op,             \* the call in progress, "idle" between calls
    arg,            \* its arguments
    ret,            \* what it returned or raised
    queried,        \* the patterns the service passed to the manager's find_files
    go_pc,          \* GoParsingStrategy.parse_file: "parse" in the loop, then "done"
    go_file,        \* its file_path
    go_lines,       \* the lines of its content
    go_i,           \* the line the loop is at (1-based)
    go_symbols,     \* symbols: symbol id -> SymbolInfo
    go_functions,   \* functions
    go_classes,     \* classes
    go_in_import_block,   \* in_import_block
    go_imports,           \* imports
    go_j,                 \* _analyze_go_calls: the line its loop is at (1-based)
    go_current_function,  \* its current_function, <<>> for None
    go_is_decl_line,      \* its is_function_declaration_line
    deep_pc,        \* SQLiteIndexManager.build_index: "idle", "walk" or "txn"
    deep_tree,      \* the files of the project on disk
    deep_todo,      \* the files the walk has still to visit
    deep_acc,       \* the parsed files accumulated in memory, and the error count
    deep_txn,       \* the rows as the open transaction sees them
    deep_db,        \* the store as committed: what every reader sees
    deep_prior,     \* the rows that were committed when the run began
    deep_ret,       \* the last call that opens or builds the deep index, its result
    deep_stats,     \* what the last get_index_stats returned
    pg_pc,          \* SearchService._paginate_results: "idle" or "done"
    pg_in,          \* its arguments
    pg_out,         \* the rows and the pagination record it returned
    kt_pc,          \* KotlinParsingStrategy.parse_file: "start", "walk" or "done"
    kt_file,        \* its file_path
    kt_nodes,       \* the nodes of the syntax tree, in the order of the traversal
    kt_i,           \* the node the traversal is at (1-based)
    kt_symbols,     \* symbols: symbol id -> SymbolInfo
    kt_symbol_lookup,     \* symbol_lookup: name -> symbol id
    kt_functions,         \* functions
    kt_classes,           \* classes
    kt_imports,           \* imports
    kt_pending_calls,     \* pending_calls
    kt_pending_call_set,  \* pending_call_set
    th_pc,          \* each thread's position in the manager method it runs
    th_call,        \* each thread's call: the method and its argument
    th_lock,        \* ShallowIndexManager._lock: the thread that holds it, or ""
    th_local,       \* each thread's local variable (file_list, data or files)
    th_ret          \* what each thread's last call returned

vars == <<project_path, index_builder, temp_dir, index_path, file_list, disk,
          base_path, op, arg, ret, queried,
          go_pc, go_file, go_lines, go_i, go_symbols, go_functions, go_classes,
          go_in_import_block, go_imports, go_j, go_current_function,
          go_is_decl_line,
          deep_pc, deep_tree, deep_todo, deep_acc, deep_txn, deep_db, deep_prior,
          deep_ret, deep_stats, pg_pc, pg_in, pg_out,
          kt_pc, kt_file, kt_nodes, kt_i, kt_symbols, kt_symbol_lookup,
          kt_functions, kt_classes, kt_imports, kt_pending_calls,
          kt_pending_call_set, th_pc, th_call, th_lock, th_local, th_ret>>

th == <<th_pc, th_call, th_lock, th_local, th_ret>>

\* The threads that share the manager.
Threads == {"t1", "t2"}

\* A call of a manager method by a thread.
ThreadCall(o, path, pattern) == [op |-> o, path |-> path, pattern |-> pattern]

NoCall == ThreadCall("", "None", PyNone)

\* A list object handed to a caller: its items, and whether it is the very
\* object the manager keeps in _file_list.
ListObject(items, alias) == [items |-> items, alias |-> alias]

\* What a call returned: the method, whether it returned a list, the list and
\* the match_type that came with it.
ThreadResult(o, has_list, list, match_type) ==
    [op |-> o, has_list |-> has_list, list |-> list, match_type |-> match_type]

NoThreadResult == ThreadResult("", FALSE, ListObject(<<>>, FALSE), "")

\* No thread is in a call, the lock is free.
ThIdle ==
    /\ th_pc = [t \in Threads |-> "idle"]
    /\ th_call = [t \in Threads |-> NoCall]
    /\ th_lock = ""
    /\ th_local = [t \in Threads |-> <<>>]
    /\ th_ret = [t \in Threads |-> NoThreadResult]

kt == <<kt_pc, kt_file, kt_nodes, kt_i, kt_symbols, kt_symbol_lookup,
        kt_functions, kt_classes, kt_imports, kt_pending_calls,
        kt_pending_call_set>>

\* No Kotlin file is being parsed.
KtIdle ==
    /\ kt_pc = "done"
    /\ kt_file = <<>>
    /\ kt_nodes = <<>>
    /\ kt_i = 1
    /\ kt_symbols = <<>>
    /\ kt_symbol_lookup = <<>>
    /\ kt_functions = <<>>
    /\ kt_classes = <<>>
    /\ kt_imports = <<>>
    /\ kt_pending_calls = <<>>
    /\ kt_pending_call_set = {}

pg == <<pg_pc, pg_in, pg_out>>

deep == <<deep_pc, deep_tree, deep_todo, deep_acc, deep_txn, deep_db, deep_prior,
          deep_ret, deep_stats>>

go == <<go_pc, go_file, go_lines, go_i, go_symbols, go_functions, go_classes,
        go_in_import_block, go_imports, go_j, go_current_function,
        go_is_decl_line>>

\* No file is being parsed.
GoIdle ==
    /\ go_pc = "done"
    /\ go_file = <<>>
    /\ go_lines = <<>>
    /\ go_i = 1
    /\ go_symbols = <<>>
    /\ go_functions = <<>>
    /\ go_classes = <<>>
    /\ go_in_import_block = FALSE
    /\ go_imports = <<>>
    /\ go_j = 1
    /\ go_current_function = <<>>
    /\ go_is_decl_line = FALSE

\* _paginate_results is not running.
PgIdle ==
    /\ pg_pc = "idle"
    /\ pg_in = NoPgIn
    /\ pg_out = NoPgOut

\* No deep build is running and no store was opened.
DeepIdle ==
    /\ deep_pc = "idle"
    /\ deep_tree = DeepTreeV1
    /\ deep_todo = <<>>
    /\ deep_acc = NoAcc
    /\ deep_txn = NoRows
    /\ deep_db = NoStore
    /\ deep_prior = NoRows
    /\ deep_ret = NoResult
    /\ deep_stats = NoStats

manager == <<project_path, index_builder, temp_dir, index_path, file_list>>

NoArg == [pattern |-> PyNone, max_results |-> MaxResultsNone,
          path |-> [type |-> "NoneType", val |-> "None"],
          excludes |-> [given |-> FALSE, names |-> {}]]

Returns(v) == [exc |-> "", val |-> v]

Raises(e) == [exc |-> e, val |-> FALSE]

Init ==
    /\ project_path = "None"
    /\ index_builder = "None"
    /\ temp_dir = "None"
    /\ index_path = "None"
    /\ file_list = NoneList
    /\ disk = [d \in ProjectDirs |-> IF d = "p2" THEN OldDoc ELSE NoFile]
    /\ base_path = ""
    /\ op = "idle"
    /\ arg = NoArg
    /\ ret = Returns(FALSE)
    /\ queried = <<>>
    /\ GoIdle
    /\ DeepIdle
    /\ PgIdle
    /\ KtIdle
    /\ ThIdle

\* ------------------------------------------------- ShallowIndexManager

Call(o, a) == op' = o /\ arg' = a

\* load_index, the normalization of one persisted path.
NormalizeLoaded(q) ==
    LET r == ReplaceBS(ReplaceDoubleBS(q))
    IN  IF StartsWith(r, <<".", "/">>) THEN SubSeq(r, 3, Len(r)) ELSE r

\* load_index, the loop over the document's entries.
RECURSIVE NormalizeDoc(_)
NormalizeDoc(items) ==
    IF items = <<>> THEN <<>>
    ELSE (IF IsInstanceStr(Head(items)) THEN <<NormalizeLoaded(Head(items).val)>> ELSE <<>>)
         \o NormalizeDoc(Tail(items))

\* json.dump(file_list, f): the document that holds the list.
DumpDoc(files) == ListDoc([i \in 1..Len(files) |-> PyStr(files[i])])

\* set_project_path(project_path[, additional_excludes=...]).  The method
\* takes no additional_excludes: a call that passes it raises TypeError before
\* the body runs.  `fail` is the step of the body that raises, if one does.
set_project_path(path, excludes, fail) ==
    /\ op = "idle"
    /\ UNCHANGED <<go, deep, pg, kt, th>>
    /\ Call("set_project_path", [NoArg EXCEPT !.path = path, !.excludes = excludes])
    /\ UNCHANGED <<file_list, disk, base_path, queried>>
    /\ IF excludes.given
       THEN /\ ret' = Raises("TypeError")
            /\ UNCHANGED <<project_path, index_builder, temp_dir, index_path>>
       ELSE IF path.type # "str" \/ StripPath(path.val) = ""
                                   \/ ~IsDir(StripPath(path.val))
       THEN /\ ret' = Returns(FALSE)
            /\ UNCHANGED <<project_path, index_builder, temp_dir, index_path>>
       ELSE LET dir == StripPath(path.val) IN
            /\ project_path' = dir
            /\ index_builder' = IF fail = "builder" THEN index_builder ELSE dir
            /\ temp_dir' = IF fail = "builder" THEN temp_dir ELSE dir
            /\ index_path' = IF fail = "none" THEN dir ELSE index_path
            /\ ret' = Returns(fail = "none")

\* build_index().  `ok` is whether the walk and the write succeed.
build_index(ok) ==
    /\ op = "idle"
    /\ UNCHANGED <<go, deep, pg, kt, th>>
    /\ Call("build_index", NoArg)
    /\ UNCHANGED <<project_path, index_builder, temp_dir, index_path, base_path, queried>>
    /\ IF index_builder = "None" \/ index_path = "None" \/ ~ok
       THEN /\ ret' = Returns(FALSE)
            /\ UNCHANGED <<file_list, disk>>
       ELSE LET files == build_shallow_file_list(index_builder) IN
            /\ disk' = [disk EXCEPT ![index_path] = DumpDoc(files)]
            /\ file_list' = SomeList(files)
            /\ ret' = Returns(TRUE)

\* load_index()
load_index ==
    /\ op = "idle"
    /\ UNCHANGED <<go, deep, pg, kt, th>>
    /\ Call("load_index", NoArg)
    /\ UNCHANGED <<project_path, index_builder, temp_dir, index_path, disk, base_path,
                   queried>>
    /\ IF index_path = "None" \/ ~disk[index_path].exists \/ ~disk[index_path].isList
       THEN /\ ret' = Returns(FALSE)
            /\ UNCHANGED file_list
       ELSE /\ file_list' = SomeList(NormalizeDoc(disk[index_path].items))
            /\ ret' = Returns(TRUE)

\* get_file_list()
get_file_list ==
    /\ op = "idle"
    /\ UNCHANGED <<go, deep, pg, kt, th>>
    /\ Call("get_file_list", NoArg)
    /\ ret' = Returns(OrEmpty(file_list))
    /\ UNCHANGED <<manager, disk, base_path, queried>>

\* find_files(pattern) on the manager.
find_files(pattern) ==
    /\ op = "idle"
    /\ UNCHANGED <<go, deep, pg, kt, th>>
    /\ Call("find_files", [NoArg EXCEPT !.pattern = pattern])
    /\ ret' = Returns(FindFilesIn(OrEmpty(file_list), pattern))
    /\ UNCHANGED <<manager, disk, base_path, queried>>

\* cleanup()
cleanup ==
    /\ op = "idle"
    /\ UNCHANGED <<go, deep, pg, kt, th>>
    /\ Call("cleanup", NoArg)
    /\ project_path' = "None"
    /\ index_builder' = "None"
    /\ temp_dir' = "None"
    /\ index_path' = "None"
    /\ file_list' = NoneList
    /\ ret' = Returns(FALSE)
    /\ UNCHANGED <<disk, base_path, queried>>

\* ------------------------------------------------- FileDiscoveryService

\* BaseService._require_project_setup: ValueError unless the context has a
\* base path.
_require_project_setup == IF base_path = "" THEN "ValueError" ELSE ""

\* not pattern
PatternIsFalsy(pattern) ==
    pattern.type = "NoneType" \/ (pattern.type = "str" /\ pattern.val = <<>>)

\* The validation without the strip(): only a falsy pattern is rejected.
ValidateNoStrip(pattern) ==
    IF _require_project_setup # "" THEN _require_project_setup
    ELSE IF PatternIsFalsy(pattern) THEN "ValueError"
    ELSE ""

\* _validate_discovery_request: the exception it raises, "" when none.  A truthy
\* pattern that is no str has no strip().
_validate_discovery_request(pattern) ==
    IF _require_project_setup # "" THEN _require_project_setup
    ELSE IF PatternIsFalsy(pattern) THEN "ValueError"
    ELSE IF pattern.type # "str" THEN "AttributeError"
    ELSE IF Strip(pattern.val) = <<>> THEN "ValueError"
    ELSE ""

\* files[:m]
SliceTo(files, m) ==
    IF m >= 0 THEN SubSeq(files, 1, IF m < Len(files) THEN m ELSE Len(files))
    ELSE SubSeq(files, 1, IF Len(files) + m > 0 THEN Len(files) + m ELSE 0)

\* the truth value of max_results
Truthy(max_results) == max_results.type = "int" /\ max_results.val # 0

\* The limit with >= for > and one path fewer.
LimitOneShort(result, max_results) ==
    IF Truthy(max_results) /\ Len(result.files) >= max_results.val
    THEN [result EXCEPT !.files = SliceTo(result.files, max_results.val - 1)]
    ELSE result

\* FileDiscoveryService.find_files, the max_results limit.
Limit(result, max_results) ==
    IF Truthy(max_results) /\ Len(result.files) > max_results.val
    THEN [result EXCEPT !.files = SliceTo(result.files, max_results.val)]
    ELSE result

\* FileDiscoveryService.find_files(pattern, max_results)
FileDiscoveryService_find_files(pattern, max_results) ==
    /\ op = "idle"
    /\ UNCHANGED <<go, deep, pg, kt, th>>
    /\ Call("service_find_files",
            [NoArg EXCEPT !.pattern = pattern, !.max_results = max_results])
    /\ UNCHANGED <<manager, disk, base_path>>
    /\ LET exc == _validate_discovery_request(pattern) IN
       IF exc # ""
       THEN /\ ret' = Raises(exc)
            /\ queried' = <<>>
       ELSE /\ queried' = <<pattern>>
            /\ ret' = Returns(Limit(FindFilesIn(OrEmpty(file_list), pattern), max_results))

\* The project is initialized (the context gets its base path) or cleared.
SetBasePath(dir) ==
    /\ op = "idle"
    /\ UNCHANGED <<go, deep, pg, kt, th>>
    /\ base_path # dir
    /\ base_path' = dir
    /\ UNCHANGED <<manager, disk, op, arg, ret, queried>>

\* The call returns to its caller.
Return ==
    /\ op # "idle"
    /\ UNCHANGED <<go, deep, pg, kt, th>>
    /\ op' = "idle"
    /\ arg' = NoArg
    /\ ret' = Returns(FALSE)
    /\ queried' = <<>>
    /\ UNCHANGED <<manager, disk, base_path>>

\* The patterns of the lifecycle specification: one that lists everything,
\* one that takes the lenient stages, and two that are no strings.
LifecyclePatterns == {PyStr(<<"*">>), PyStr(<<"a">>), PyNone, PyInt7}

Next ==
    \/ \E path \in PathArgs, excludes \in ExcludesArgs, fail \in {"none", "builder", "makedirs"} :
           set_project_path(path, excludes, fail)
    \/ \E ok \in BOOLEAN : build_index(ok)
    \/ load_index
    \/ get_file_list
    \/ \E pattern \in LifecyclePatterns : find_files(pattern)
    \/ cleanup
    \/ Return

\* The lifecycle of the shallow index manager.
Spec == Init /\ [][Next]_vars

\* ---------------------------------------------------------- find_files

\* States of the manager in which a search is made: nothing indexed, p1 or p2
\* built, and the older document of p2 loaded.
Fresh ==
    /\ project_path = "None" /\ index_builder = "None"
    /\ temp_dir = "None" /\ index_path = "None"
    /\ file_list = NoneList
    /\ disk = [d \in ProjectDirs |-> IF d = "p2" THEN OldDoc ELSE NoFile]

Built(dir) ==
    /\ project_path = dir /\ index_builder = dir
    /\ temp_dir = dir /\ index_path = dir
    /\ file_list = SomeList(Tree(dir))
    /\ disk = [d \in ProjectDirs |->
                 IF d = dir THEN DumpDoc(Tree(dir))
                 ELSE IF d = "p2" THEN OldDoc ELSE NoFile]

Loaded ==
    /\ project_path = "p2" /\ index_builder = "p2"
    /\ temp_dir = "p2" /\ index_path = "p2"
    /\ file_list = SomeList(NormalizeDoc(OldDoc.items))
    /\ disk = [d \in ProjectDirs |-> IF d = "p2" THEN OldDoc ELSE NoFile]

Indexed == Fresh \/ Built("p1") \/ Built("p2") \/ Loaded

InitFind ==
    /\ GoIdle
    /\ DeepIdle
    /\ PgIdle
    /\ KtIdle
    /\ ThIdle
    /\ Indexed
    /\ base_path = ""
    /\ op = "idle"
    /\ arg = NoArg
    /\ ret = Returns(FALSE)
    /\ queried = <<>>

NextFind ==
    \/ \E pattern \in PatternArgs : find_files(pattern)
    \/ Return

\* Searches of the manager, over every pattern, in each indexed state.
SpecFind == InitFind /\ [][NextFind]_vars

\* ------------------------------------------- the users.go project

\* A project of two files, src/users.go and test/users_test.go.
f_src_users_go == <<"s", "r", "c", "/", "u", "s", "e", "r", "s", ".", "g", "o">>

f_test_users_test_go == <<"t", "e", "s", "t", "/", "u", "s", "e", "r", "s", "_", "t", "e", "s", "t", ".", "g", "o">>

UsersTree == <<f_src_users_go, f_test_users_test_go>>

\* The pieces of a text: SubSeq(t, i, j) for every i <= j.
Pieces(t) == {SubSeq(t, i, j) : <<i, j>> \in {x \in (1..Len(t)) \X (1..Len(t)) : x[1] <= x[2]}}

\* The patterns asked of that project: every piece of its two paths, of the
\* recursive glob for users.go and of the upper-case name.
UsersPatterns ==
    {PyStr(q) : q \in Pieces(f_src_users_go) \cup Pieces(f_test_users_test_go)
                       \cup Pieces(<<"*", "*", "/", "u", "s", "e", "r", "s", ".", "g", "o">>)
                       \cup Pieces(<<"U", "S", "E", "R", "S", ".", "G", "O">>)}

\* The manager after set_project_path and build_index on that project.
InitUsers ==
    /\ GoIdle
    /\ DeepIdle
    /\ PgIdle
    /\ KtIdle
    /\ ThIdle
    /\ project_path = "users" /\ index_builder = "users"
    /\ temp_dir = "users" /\ index_path = "users"
    /\ file_list = SomeList(UsersTree)
    /\ disk = [d \in ProjectDirs \cup {"users"} |->
                 IF d = "users" THEN DumpDoc(UsersTree)
                 ELSE IF d = "p2" THEN OldDoc ELSE NoFile]
    /\ base_path = ""
    /\ op = "idle"
    /\ arg = NoArg
    /\ ret = Returns(FALSE)
    /\ queried = <<>>

NextUsers ==
    \/ \E pattern \in UsersPatterns : find_files(pattern)
    \/ Return

\* Searches of the manager in the project of src/users.go and
\* test/users_test.go.
SpecUsers == InitUsers /\ [][NextUsers]_vars

\* ------------------------------------------------------ service calls

InitService ==
    /\ GoIdle
    /\ DeepIdle
    /\ PgIdle
    /\ KtIdle
    /\ ThIdle
    /\ Indexed
    /\ base_path \in {"", "p1"}
    /\ op = "idle"
    /\ arg = NoArg
    /\ ret = Returns(FALSE)
    /\ queried = <<>>

NextService ==
    \/ \E pattern \in ServicePatternArgs, max_results \in MaxResultsArgs :
           FileDiscoveryService_find_files(pattern, max_results)
    \/ \E dir \in {"", "p1"} : SetBasePath(dir)
    \/ Return

\* Calls of the file-discovery service, in each indexed state.
SpecService == InitService /\ [][NextService]_vars

\* ------------------------------------------------- GoParsingStrategy

\* A line of a Go file, stripped, by the text it stands for:
\*   func:       func Name() {
\*   method:     func (r Recv) Name() {
\*   struct:     type Name struct {
\*   interface:  type Name interface {
\*   call:       Name()
\*   import1:    import ("fmt")
\*   other:      }
\*   import:     import "name"
\*   importopen: import (
\*   quoted:     "name", or recv "name" when the import has an alias
\*   close:      )
\*   comment:    // name
\*   blank:      the empty line
\*   block:      /* name */
\*   blockstart: /* name
\*   blockend:   name */
\*   trailing:   var x = 1 /* name */
GoLine(kind, recv, name) == [kind |-> kind, recv |-> recv, name |-> name]

GoLineValues ==
    {GoLine("func", "", "Run"),
     GoLine("method", "A", "Run"),
     GoLine("method", "B", "Run"),
     GoLine("struct", "", "A"),
     GoLine("interface", "", "B"),
     GoLine("call", "", "Run"),
     GoLine("call", "", "A"),
     GoLine("import1", "", ""),
     GoLine("other", "", "")}

\* Lines of files in which one function's name is inside another's.
GoNameLineValues ==
    {GoLine("func", "", "Add"),
     GoLine("func", "", "AddAll"),
     GoLine("func", "", "Run"),
     GoLine("call", "", "Add"),
     GoLine("call", "", "AddAll")}

\* Lines of files with comments above their declarations.
GoDocLineValues ==
    {GoLine("comment", "", "a"),
     GoLine("comment", "", ""),
     GoLine("blank", "", ""),
     GoLine("block", "", "b"),
     GoLine("blockstart", "", "b"),
     GoLine("blockend", "", "c"),
     GoLine("trailing", "", "c"),
     GoLine("func", "", "Run"),
     GoLine("struct", "", "A")}

\* Lines of files with imports.
GoImportLineValues ==
    {GoLine("import", "", "p"),
     GoLine("importopen", "", ""),
     GoLine("quoted", "", "p"),
     GoLine("quoted", "f", "p"),
     GoLine("quoted", "", "q"),
     GoLine("close", "", ""),
     GoLine("func", "", "Run")}

GoPaths == {<<"a", ".", "g", "o">>, <<"b", "/", "a", ".", "g", "o">>}

IsGoDecl(line) == line.kind \in {"func", "method", "struct", "interface"}

\* A file the Go compiler accepts: no package-level name declared twice, no
\* method declared twice on one receiver, imports before the declarations,
\* and statements only inside a function body.
ValidGo(lines) ==
    /\ \A i, j \in 1..Len(lines) :
        (i < j /\ IsGoDecl(lines[i]) /\ IsGoDecl(lines[j])) =>
            IF lines[i].kind = "method" \/ lines[j].kind = "method"
            THEN lines[i] # lines[j]
            ELSE lines[i].name # lines[j].name
    /\ \A i \in 1..Len(lines) :
        lines[i].kind = "import1" => \A j \in 1..(i - 1) : lines[j].kind = "import1"
    /\ \A i \in 1..Len(lines) :
        lines[i].kind = "call" => i > 1 /\ lines[i - 1].kind \in {"func", "method", "call"}

GoInputs == {l \in UNION {[1..n -> GoLineValues] : n \in 0..MaxGoLines} : ValidGo(l)}

GoNameInputs ==
    {l \in UNION {[1..n -> GoNameLineValues] : n \in 0..MaxGoLines} : ValidGo(l)}

\* A comment opened by a blockstart line is closed by the next line, and a
\* blockend line closes the comment the line above it opened.
ValidGoDoc(lines) ==
    /\ ValidGo(lines)
    /\ \A i \in 1..Len(lines) :
        /\ lines[i].kind = "blockstart" =>
               i < Len(lines) /\ lines[i + 1].kind = "blockend"
        /\ lines[i].kind = "blockend" => i > 1 /\ lines[i - 1].kind = "blockstart"

GoDocInputs ==
    {l \in UNION {[1..n -> GoDocLineValues] : n \in 0..MaxGoLines} : ValidGoDoc(l)}

\* Line i is inside a parenthesized import declaration.
InImportDecl(lines, i) ==
    \E j \in 1..(i - 1) :
        /\ lines[j].kind = "importopen"
        /\ \A k \in (j + 1)..(i - 1) : lines[k].kind # "close"

\* Import declarations come first, a parenthesized one holds import specs
\* and is closed, and no package is imported twice under one name.
ValidGoImports(lines) ==
    /\ ValidGo(lines)
    /\ \A i \in 1..Len(lines) :
        /\ InImportDecl(lines, i) <=> lines[i].kind \in {"quoted", "close"}
        /\ lines[i].kind = "importopen" =>
               \E k \in (i + 1)..Len(lines) : lines[k].kind = "close"
        /\ lines[i].kind = "func" => \A k \in (i + 1)..Len(lines) : lines[k].kind = "func"
    /\ \A i, j \in 1..Len(lines) :
        (i < j /\ lines[i].kind \in {"import", "quoted"}
               /\ lines[j].kind \in {"import", "quoted"}) =>
            <<lines[i].recv, lines[i].name>> # <<lines[j].recv, lines[j].name>>

GoImportInputs ==
    {l \in UNION {[1..n -> GoImportLineValues] : n \in 0..MaxGoImportLines} :
        ValidGoImports(l)}

\* The characters of the names that occur in the lines.
Chars(name) ==
    CASE name = "Run" -> <<"R", "u", "n">>
      [] name = "A" -> <<"A">>
      [] name = "B" -> <<"B">>
      [] name = "Add" -> <<"A", "d", "d">>
      [] name = "AddAll" -> <<"A", "d", "d", "A", "l", "l">>
      [] name = "import" -> <<"i", "m", "p", "o", "r", "t">>
      [] name = "func" -> <<"f", "u", "n", "c">>
      [] OTHER -> <<>>

\* sub in s, on strings
IsSubstring(sub, s) ==
    \E k \in 0..(Len(s) - Len(sub)) : SubSeq(s, k + 1, k + Len(sub)) = sub

\* line.startswith('func ')
StartsWithFunc(line) == line.kind \in {"func", "method"}

\* line.startswith('import ')
StartsWithImport(line) == line.kind \in {"import1", "import", "importopen"}

\* '(' in line, ')' in line
HasOpenParen(line) == line.kind \in {"func", "method", "call", "import1", "importopen"}

HasCloseParen(line) == line.kind \in {"func", "method", "call", "import1", "close"}

\* re.search(r'import\s+"([^"]+)"', line): the parenthesis of import ("fmt")
\* stands between the keyword and the quote.
SingleImportMatches(line) == line.kind = "import"

\* re.search(r'"([^"]+)"', line) inside an import block
QuotedMatches(line) == line.kind = "quoted"

\* ParsingStrategy._create_symbol_id: "<file_path>::<symbol_name>".
_create_symbol_id(file_path, symbol_name) == <<file_path, "::", symbol_name>>

\* symbol_id.split("::")[-1]
SymbolIdName(symbol_id) == symbol_id[3]

\* SymbolInfo(type=..., file=..., line=..., signature=..., docstring=...);
\* docstring is <<>> for None.
SymbolInfo(type, file, line, signature, docstring) ==
    [type |-> type, file |-> file, line |-> line, signature |-> signature,
     docstring |-> docstring, called_by |-> <<>>]

\* symbols[symbol_id] = info on a dict kept as the sequence of its items: a key
\* already there keeps its place and gets the new value.
DictSet(d, k, v) ==
    IF \E i \in 1..Len(d) : d[i].id = k
    THEN [i \in 1..Len(d) |-> IF d[i].id = k THEN [id |-> k, info |-> v] ELSE d[i]]
    ELSE Append(d, [id |-> k, info |-> v])

\* The name parse_file files a declaration under.
GoSymbolName(line) == line.name

\* The type it records for the line's declaration.
GoSymbolType(line) ==
    CASE line.kind = "func" -> "function"
      [] line.kind = "method" -> "method"
      [] line.kind = "struct" -> "struct"
      [] OTHER -> "interface"

\* _extract_go_function_name: the name, "" for None.
_extract_go_function_name(line) ==
    IF line.kind \in {"func", "method"} THEN line.name ELSE ""

\* _extract_go_called_functions: the findall of (\w+)\s*\( and then of
\* \.(\w+)\s*\( on the line.
_extract_go_called_functions(line) ==
    CASE line.kind = "call" -> <<line.name>>
      [] line.kind = "func" -> <<line.name>>
      [] line.kind = "method" -> <<"func", line.name>>
      [] line.kind = "import1" -> <<"import">>
      [] line.kind = "importopen" -> <<"import">>
      [] OTHER -> <<>>

\* if current_function not in symbol_info.called_by: append
AppendOnce(called_by, caller) ==
    IF \E k \in 1..Len(called_by) : called_by[k] = caller
    THEN called_by ELSE Append(called_by, caller)

\* _analyze_go_calls, the loop over symbols.items() for one called function.
RecordCall(symbols, called_func, caller) ==
    [k \in 1..Len(symbols) |->
        IF IsSubstring(Chars(called_func), Chars(SymbolIdName(symbols[k].id)))
        THEN [symbols[k] EXCEPT !.info.called_by = AppendOnce(@, caller)]
        ELSE symbols[k]]

\* _analyze_go_calls, the loop over called_functions.
RECURSIVE RecordCalls(_, _, _)
RecordCalls(symbols, called_functions, caller) ==
    IF called_functions = <<>> THEN symbols
    ELSE RecordCalls(RecordCall(symbols, Head(called_functions), caller),
                     Tail(called_functions), caller)

\* The stripped text of a line, in words.
GoLineText(line) ==
    CASE line.kind = "func" -> <<"func", line.name, "() {">>
      [] line.kind = "method" -> <<"func", "(r", line.recv, ")", line.name, "() {">>
      [] line.kind = "struct" -> <<"type", line.name, "struct {">>
      [] line.kind = "interface" -> <<"type", line.name, "interface {">>
      [] line.kind = "call" -> <<line.name, "()">>
      [] line.kind = "import1" -> <<"import", "(\"fmt\")">>
      [] line.kind = "other" -> <<"}">>
      [] line.kind = "import" -> <<"import", "\"", line.name, "\"">>
      [] line.kind = "importopen" -> <<"import", "(">>
      [] line.kind = "quoted" ->
            (IF line.recv = "" THEN <<>> ELSE <<line.recv>>) \o <<"\"", line.name, "\"">>
      [] line.kind = "close" -> <<")">>
      [] line.kind = "comment" ->
            <<"//">> \o (IF line.name = "" THEN <<>> ELSE <<line.name>>)
      [] line.kind = "block" -> <<"/*", line.name, "*/">>
      [] line.kind = "blockstart" -> <<"/*", line.name>>
      [] line.kind = "blockend" -> <<line.name, "*/">>
      [] line.kind = "trailing" -> <<"var x = 1", "/*", line.name, "*/">>
      [] OTHER -> <<>>

\* stripped.startswith('//'), stripped.startswith('/*'), stripped.endswith('*/')
StartsWithSlashes(text) == text # <<>> /\ Head(text) = "//"

StartsWithOpen(text) == text # <<>> /\ Head(text) = "/*"

EndsWithClose(text) == text # <<>> /\ text[Len(text)] = "*/"

\* stripped[2:].strip() and stripped[:-2].strip() on a text that starts or
\* ends with a two-character comment marker
DropMarker(text) == Tail(text)

DropEndMarker(text) == SubSeq(text, 1, Len(text) - 1)

\* '\n'.join(comment_lines)
RECURSIVE JoinLines(_)
JoinLines(comment_lines) ==
    IF comment_lines = <<>> THEN <<>>
    ELSE IF Len(comment_lines) = 1 THEN comment_lines[1]
    ELSE comment_lines[1] \o <<NL>> \o JoinLines(Tail(comment_lines))

\* _extract_go_comment, the inner while loop that collects a multi-line
\* comment upwards from line i (1-based) until a line that starts with /*.
RECURSIVE CollectBlock(_, _, _)
CollectBlock(lines, i, temp_lines) ==
    IF i < 1 THEN [found |-> FALSE, temp_lines |-> temp_lines]
    ELSE LET temp_stripped == GoLineText(lines[i])
         IN  IF StartsWithOpen(temp_stripped)
             THEN [found |-> TRUE,
                   temp_lines |-> <<DropMarker(temp_stripped)>> \o temp_lines]
             ELSE CollectBlock(lines, i - 1, <<temp_stripped>> \o temp_lines)

\* _extract_go_comment, the outer while loop at line i (1-based).
RECURSIVE CollectComment(_, _, _)
CollectComment(lines, i, comment_lines) ==
    IF i < 1 THEN comment_lines
    ELSE LET stripped == GoLineText(lines[i])
         IN  IF stripped = <<>> THEN comment_lines
             ELSE IF StartsWithSlashes(stripped)
             THEN CollectComment(lines, i - 1, <<DropMarker(stripped)>> \o comment_lines)
             ELSE IF StartsWithOpen(stripped) /\ EndsWithClose(stripped)
             THEN CollectComment(lines, i - 1,
                      <<DropEndMarker(DropMarker(stripped))>> \o comment_lines)
             ELSE IF EndsWithClose(stripped)
             THEN LET block == CollectBlock(lines, i - 1, <<DropEndMarker(stripped)>>)
                  IN  IF block.found THEN block.temp_lines \o comment_lines
                      ELSE comment_lines
             ELSE comment_lines

\* _extract_go_comment(lines, line_index) for the declaration at line_index
\* (1-based): the docstring, <<>> for None.
_extract_go_comment(lines, line_index) ==
    JoinLines(CollectComment(lines, line_index - 1, <<>>))

\* parse_file before the first line of its loop, on one of the given files.
GoStart(paths, inputs) ==
    /\ go_pc = "parse"
    /\ go_file \in paths
    /\ go_lines \in inputs
    /\ go_i = 1
    /\ go_symbols = <<>>
    /\ go_functions = <<>>
    /\ go_classes = <<>>
    /\ go_in_import_block = FALSE
    /\ go_imports = <<>>
    /\ go_j = 1
    /\ go_current_function = <<>>
    /\ go_is_decl_line = FALSE

\* Before the first line of parse_file's loop.
InitGo ==
    /\ Fresh
    /\ base_path = ""
    /\ op = "idle"
    /\ arg = NoArg
    /\ ret = Returns(FALSE)
    /\ queried = <<>>
    /\ GoStart(GoPaths, GoInputs)
    /\ DeepIdle
    /\ PgIdle
    /\ KtIdle
    /\ ThIdle

\* One turn of parse_file's loop over the lines: the elif chain.
GoParseLine ==
    /\ go_pc = "parse"
    /\ go_i <= Len(go_lines)
    /\ LET line == go_lines[go_i]
           symbol_id == _create_symbol_id(go_file, GoSymbolName(line))
           info == SymbolInfo(GoSymbolType(line), go_file, go_i,
                              IF line.kind \in {"func", "method"} THEN line ELSE GoLine("", "", ""),
                              _extract_go_comment(go_lines, go_i))
           declares == ~StartsWithImport(line) /\ ~go_in_import_block /\ IsGoDecl(line)
       IN  /\ go_imports' =
                  IF StartsWithImport(line)
                  THEN (IF SingleImportMatches(line)
                        THEN Append(go_imports, line.name) ELSE go_imports)
                  ELSE IF go_in_import_block /\ ~HasCloseParen(line) /\ QuotedMatches(line)
                  THEN Append(go_imports, line.name)
                  ELSE go_imports
           /\ go_in_import_block' =
                  IF StartsWithImport(line)
                  THEN (IF ~SingleImportMatches(line) /\ HasOpenParen(line)
                        THEN TRUE ELSE go_in_import_block)
                  ELSE IF go_in_import_block THEN ~HasCloseParen(line)
                  ELSE go_in_import_block
           /\ go_symbols' = IF declares THEN DictSet(go_symbols, symbol_id, info)
                            ELSE go_symbols
           /\ go_functions' = IF declares /\ line.kind \in {"func", "method"}
                              THEN Append(go_functions, line.name) ELSE go_functions
           /\ go_classes' = IF declares /\ line.kind \in {"struct", "interface"}
                            THEN Append(go_classes, line.name) ELSE go_classes
    /\ go_i' = go_i + 1
    /\ UNCHANGED <<go_pc, go_file, go_lines, go_j, go_current_function, go_is_decl_line>>
    /\ UNCHANGED <<manager, disk, base_path, op, arg, ret, queried, deep, pg, kt, th>>

\* The loop is over: parse_file calls _analyze_go_calls.
GoStartCalls ==
    /\ go_pc = "parse"
    /\ go_i > Len(go_lines)
    /\ go_pc' = "calls"
    /\ UNCHANGED <<go_file, go_lines, go_i, go_symbols, go_functions, go_classes,
                   go_in_import_block, go_imports, go_j, go_current_function,
                   go_is_decl_line>>
    /\ UNCHANGED <<manager, disk, base_path, op, arg, ret, queried, deep, pg, kt, th>>

\* One turn of the loop of _analyze_go_calls.  current_function is <<>> for
\* None.
GoAnalyzeLine ==
    /\ go_pc = "calls"
    /\ go_j <= Len(go_lines)
    /\ LET line == go_lines[go_j]
           func_name == _extract_go_function_name(line)
           current == IF StartsWithFunc(line) /\ func_name # ""
                      THEN _create_symbol_id(go_file, func_name)
                      ELSE go_current_function
           decl == IF StartsWithFunc(line)
                   THEN (IF func_name # "" THEN TRUE ELSE go_is_decl_line)
                   ELSE FALSE
       IN  /\ go_current_function' = current
           /\ go_is_decl_line' = decl
           /\ go_symbols' =
                  IF current # <<>> /\ ~decl /\ HasOpenParen(line) /\ HasCloseParen(line)
                  THEN RecordCalls(go_symbols, _extract_go_called_functions(line), current)
                  ELSE go_symbols
    /\ go_j' = go_j + 1
    /\ UNCHANGED <<go_pc, go_file, go_lines, go_i, go_functions, go_classes,
                   go_in_import_block, go_imports>>
    /\ UNCHANGED <<manager, disk, base_path, op, arg, ret, queried, deep, pg, kt, th>>

\* parse_file returns symbols and file_info.
GoReturn ==
    /\ go_pc = "calls"
    /\ go_j > Len(go_lines)
    /\ go_pc' = "done"
    /\ UNCHANGED <<go_file, go_lines, go_i, go_symbols, go_functions, go_classes,
                   go_in_import_block, go_imports, go_j, go_current_function,
                   go_is_decl_line>>
    /\ UNCHANGED <<manager, disk, base_path, op, arg, ret, queried, deep, pg, kt, th>>

NextGo == GoParseLine \/ GoStartCalls \/ GoAnalyzeLine \/ GoReturn

\* GoParsingStrategy.parse_file on each Go file.
SpecGo == InitGo /\ [][NextGo]_vars

InitGoNames ==
    /\ Fresh
    /\ base_path = ""
    /\ op = "idle"
    /\ arg = NoArg
    /\ ret = Returns(FALSE)
    /\ queried = <<>>
    /\ GoStart(GoPaths, GoNameInputs)
    /\ DeepIdle
    /\ PgIdle
    /\ KtIdle
    /\ ThIdle

\* parse_file on files where one function's name is inside another's.
SpecGoNames == InitGoNames /\ [][NextGo]_vars

InitGoDoc ==
    /\ Fresh
    /\ base_path = ""
    /\ op = "idle"
    /\ arg = NoArg
    /\ ret = Returns(FALSE)
    /\ queried = <<>>
    /\ GoStart({<<"a", ".", "g", "o">>}, GoDocInputs)
    /\ DeepIdle
    /\ PgIdle
    /\ KtIdle
    /\ ThIdle

\* parse_file on files with comments.
SpecGoDoc == InitGoDoc /\ [][NextGo]_vars

InitGoImports ==
    /\ Fresh
    /\ base_path = ""
    /\ op = "idle"
    /\ arg = NoArg
    /\ ret = Returns(FALSE)
    /\ queried = <<>>
    /\ GoStart({<<"a", ".", "g", "o">>}, GoImportInputs)
    /\ DeepIdle
    /\ PgIdle
    /\ KtIdle
    /\ ThIdle

\* parse_file on files with import declarations.
SpecGoImports == InitGoImports /\ [][NextGo]_vars

\* ------------------------------------------- the deep index and its store

shallow == <<manager, disk, base_path, op, arg, ret, queried>>

\* initialize_schema with a silent migration: a store of another version is
\* stamped with the current one.
InitializeSchemaMigrating(db) ==
    IF db.schema_version = "missing" \/ db.schema_version # SCHEMA_VERSION
    THEN [db |-> Store(db.tables \cup StoreTables, SCHEMA_VERSION, db.rows), exc |-> ""]
    ELSE [db |-> db, exc |-> ""]

\* SQLiteIndexStore.initialize_schema: the store it leaves and the exception
\* it raises, "" when none.
initialize_schema(db) ==
    IF db.schema_version = "missing"
    THEN [db |-> Store(db.tables \cup StoreTables, SCHEMA_VERSION, db.rows), exc |-> ""]
    ELSE IF db.schema_version # SCHEMA_VERSION
    THEN [db |-> db, exc |-> "SQLiteSchemaMismatchError"]
    ELSE [db |-> db, exc |-> ""]

\* The store is opened.
SQLiteIndexStore_initialize_schema ==
    /\ deep_pc = "idle"
    /\ LET r == initialize_schema(deep_db) IN
       /\ deep_db' = r.db
       /\ deep_ret' = [call |-> "initialize_schema", val |-> r.exc = "", exc |-> r.exc]
    /\ UNCHANGED <<deep_pc, deep_tree, deep_todo, deep_acc, deep_txn, deep_prior, deep_stats>>
    /\ UNCHANGED <<shallow, go, pg, kt, th>>

\* The files of the project change on disk between two builds.
DeepTouch ==
    /\ deep_pc = "idle"
    /\ deep_tree' = IF deep_tree = DeepTreeV1 THEN DeepTreeV2 ELSE DeepTreeV1
    /\ UNCHANGED <<deep_pc, deep_todo, deep_acc, deep_txn, deep_db, deep_prior, deep_ret,
                   deep_stats>>
    /\ UNCHANGED <<shallow, go, pg, kt, th>>

BuildResult(ok) == [call |-> "build_index", val |-> ok, exc |-> ""]

\* build_index begins: the store is opened and the walk starts.  A store of
\* another schema version is not opened and the build fails.
DeepBuildStart ==
    /\ deep_pc = "idle"
    /\ LET r == initialize_schema(deep_db) IN
       /\ deep_db' = r.db
       /\ deep_prior' = r.db.rows
       /\ IF r.exc # ""
          THEN /\ deep_ret' = BuildResult(FALSE)
               /\ UNCHANGED <<deep_pc, deep_todo>>
          ELSE /\ deep_pc' = "walk"
               /\ deep_todo' = deep_tree
               /\ deep_ret' = [call |-> "build_index", val |-> FALSE, exc |-> "running"]
    /\ deep_acc' = NoAcc
    /\ deep_txn' = NoRows
    /\ UNCHANGED <<deep_tree, deep_stats>>
    /\ UNCHANGED <<shallow, go, pg, kt, th>>

\* The enumeration with no binary rejection: every file that is not oversized.
AcceptsBinary(f) == ~f.oversize

\* The enumeration accepts a file: not larger than the maximum, no NUL byte in
\* its first read chunk.
Accepts(f) == ~f.oversize /\ f.nul # "first"

\* The walk visits the next file: it is skipped (too large, unreadable, or
\* binary) or parsed by the strategy of its extension.
DeepVisitFile(err) ==
    /\ deep_pc = "walk"
    /\ deep_todo # <<>>
    /\ LET f == Head(deep_todo) IN
       deep_acc' =
           IF f.oversize THEN deep_acc
           ELSE IF err THEN [deep_acc EXCEPT !.io_errors = @ + 1]
           ELSE IF ~Accepts(f) THEN deep_acc
           ELSE [deep_acc EXCEPT !.files = Append(@, f)]
    /\ deep_todo' = Tail(deep_todo)
    /\ UNCHANGED <<deep_pc, deep_tree, deep_txn, deep_db, deep_prior, deep_ret, deep_stats>>
    /\ UNCHANGED <<shallow, go, pg, kt, th>>

\* The build is cancelled between two files.
DeepCancel ==
    /\ deep_pc = "walk"
    /\ deep_pc' = "idle"
    /\ deep_todo' = <<>>
    /\ deep_acc' = NoAcc
    /\ deep_ret' = BuildResult(FALSE)
    /\ UNCHANGED <<deep_tree, deep_txn, deep_db, deep_prior, deep_stats>>
    /\ UNCHANGED <<shallow, go, pg, kt, th>>

\* All files are parsed: the transaction opens and deletes the prior rows;
\* deep_todo now holds the parsed files still to be written.
DeepBeginWrite ==
    /\ deep_pc = "walk"
    /\ deep_todo = <<>>
    /\ deep_pc' = "txn"
    /\ deep_txn' = NoRows
    /\ deep_todo' = deep_acc.files
    /\ UNCHANGED <<deep_tree, deep_acc, deep_db, deep_prior, deep_ret, deep_stats>>
    /\ UNCHANGED <<shallow, go, pg, kt, th>>

\* The rows of one parsed file.
RowsOf(f) == Rows({FileRow(f.path, f.language)}, {SymbolRow(f.path, n) : n \in f.symbols})

AddRows(rows, more) == Rows(rows.files \cup more.files, rows.symbols \cup more.symbols)

\* The insert committed on the spot: the rows go to the store as written.
InsertAutocommit(committed, txn, f) ==
    [committed |-> AddRows(committed, RowsOf(f)), txn |-> AddRows(txn, RowsOf(f))]

\* The insert of one file's rows inside the transaction: the committed rows
\* stay as they are.
InsertInTransaction(committed, txn, f) ==
    [committed |-> committed, txn |-> AddRows(txn, RowsOf(f))]

\* The rows of the next parsed file are written.
DeepInsertFile ==
    /\ deep_pc = "txn"
    /\ deep_todo # <<>>
    /\ LET w == InsertInTransaction(deep_db.rows, deep_txn, Head(deep_todo)) IN
       /\ deep_db' = [deep_db EXCEPT !.rows = w.committed]
       /\ deep_txn' = w.txn
    /\ deep_todo' = Tail(deep_todo)
    /\ UNCHANGED <<deep_pc, deep_tree, deep_acc, deep_prior, deep_ret, deep_stats>>
    /\ UNCHANGED <<shallow, go, pg, kt, th>>

\* The final commit: the rows of the transaction become the index.
DeepCommit ==
    /\ deep_pc = "txn"
    /\ deep_todo = <<>>
    /\ deep_db' = [deep_db EXCEPT !.rows = deep_txn]
    /\ deep_pc' = "idle"
    /\ deep_txn' = NoRows
    /\ deep_acc' = NoAcc
    /\ deep_ret' = BuildResult(TRUE)
    /\ UNCHANGED <<deep_tree, deep_todo, deep_prior, deep_stats>>
    /\ UNCHANGED <<shallow, go, pg, kt, th>>

\* A write fails (the disk is full): the transaction is rolled back.
DeepRollback ==
    /\ deep_pc = "txn"
    /\ deep_pc' = "idle"
    /\ deep_txn' = NoRows
    /\ deep_todo' = <<>>
    /\ deep_acc' = NoAcc
    /\ deep_ret' = BuildResult(FALSE)
    /\ UNCHANGED <<deep_tree, deep_db, deep_prior, deep_stats>>
    /\ UNCHANGED <<shallow, go, pg, kt, th>>

\* What get_index_stats reports of the given rows.
StatsOf(rows) ==
    [read |-> TRUE, indexed_files |-> Cardinality(rows.files),
     symbol_count |-> Cardinality(rows.symbols)]

\* get_index_stats(): a reader, at any time, of the committed rows.
get_index_stats ==
    /\ deep_stats' = StatsOf(deep_db.rows)
    /\ UNCHANGED <<deep_pc, deep_tree, deep_todo, deep_acc, deep_txn, deep_db, deep_prior,
                   deep_ret>>
    /\ UNCHANGED <<shallow, go, pg, kt, th>>

InitDeep ==
    /\ Fresh
    /\ base_path = ""
    /\ op = "idle"
    /\ arg = NoArg
    /\ ret = Returns(FALSE)
    /\ queried = <<>>
    /\ GoIdle
    /\ deep_pc = "idle"
    /\ deep_tree \in {DeepTreeV1, DeepTreeV2}
    /\ deep_todo = <<>>
    /\ deep_acc = NoAcc
    /\ deep_txn = NoRows
    /\ deep_db \in FoundStores
    /\ deep_prior = deep_db.rows
    /\ deep_ret = NoResult
    /\ deep_stats = NoStats
    /\ PgIdle
    /\ KtIdle
    /\ ThIdle

NextDeep ==
    \/ SQLiteIndexStore_initialize_schema
    \/ DeepTouch
    \/ DeepBuildStart
    \/ \E err \in BOOLEAN : DeepVisitFile(err)
    \/ DeepCancel
    \/ DeepBeginWrite
    \/ DeepInsertFile
    \/ DeepCommit
    \/ DeepRollback
    \/ get_index_stats

\* The deep index: its store, its builds and its readers.
SpecDeep == InitDeep /\ [][NextDeep]_vars

\* ------------------------------------------- SearchService pagination

\* path1 < path2 on strings: by the first character that differs, a proper
\* prefix first.
RECURSIVE PathLess(_, _)
PathLess(x, y) ==
    IF y = <<>> THEN FALSE
    ELSE IF x = <<>> THEN TRUE
    ELSE IF Head(x) # Head(y) THEN Ord(Head(x)) < Ord(Head(y))
    ELSE PathLess(Tail(x), Tail(y))

\* The (path, line) key of one row before that of another.
RowLess(r1, r2) ==
    PathLess(r1.file, r2.file) \/ (r1.file = r2.file /\ r1.line < r2.line)

\* The rows of the map as they come: file by file in key order, each file's
\* entries in list order.
RECURSIVE FlattenRaw(_)
FlattenRaw(raw) ==
    IF raw = <<>> THEN <<>>
    ELSE [i \in 1..Len(Head(raw).entries) |->
             [file |-> Head(raw).path, line |-> Head(raw).entries[i].line,
              text |-> Head(raw).entries[i].text]]
         \o FlattenRaw(Tail(raw))

\* The rows left in the order of the map and of its lists.
SortRowsKeepOrder(rows) == rows

\* sorted(rows, key=(path, line)): a stable sort, so each row stands after the
\* rows with a smaller key and after the earlier rows with an equal key.
SortRows(rows) ==
    LET n == Len(rows)
        Before(j, i) ==
            \/ RowLess(rows[j], rows[i])
            \/ ~RowLess(rows[i], rows[j]) /\ j < i
        place == [i \in 1..n |-> Cardinality({j \in 1..n : Before(j, i)}) + 1]
    IN  [k \in 1..n |-> rows[CHOOSE i \in 1..n : place[i] = k]]

MinOf(a, b) == IF a < b THEN a ELSE b

\* The window's end taken as start + max_results, not clipped to the total.
PaginateUnclippedEnd(raw, start_index, max_results) ==
    LET all   == SortRows(FlattenRaw(raw))
        total == Len(all)
        start == MinOf(start_index, total)
        end   == IF max_results.given THEN start + max_results.val ELSE total
    IN  [rows |-> SubSeq(all, start + 1, MinOf(end, total)),
         pagination |-> [total_matches |-> total, returned |-> end - start,
                         start_index |-> start, end_index |-> end,
                         has_more |-> end < total, max_results |-> max_results]]

\* The start reported as given, not clipped to the total.
PaginateUnclippedStart(raw, start_index, max_results) ==
    LET all   == SortRows(FlattenRaw(raw))
        total == Len(all)
        start == start_index
        end   == IF max_results.given THEN MinOf(start + max_results.val, total) ELSE total
    IN  [rows |-> SubSeq(all, start + 1, end),
         pagination |-> [total_matches |-> total,
                         returned |-> IF end > start THEN end - start ELSE 0,
                         start_index |-> start, end_index |-> end,
                         has_more |-> end < total, max_results |-> max_results]]

\* _paginate_results(raw_results, start_index, max_results): the rows of the
\* window and the pagination record.
_paginate_results(raw, start_index, max_results) ==
    LET all   == SortRows(FlattenRaw(raw))
        total == Len(all)
        start == MinOf(start_index, total)
        end   == IF max_results.given THEN MinOf(start + max_results.val, total) ELSE total
    IN  [rows |-> SubSeq(all, start + 1, end),
         pagination |-> [total_matches |-> total, returned |-> end - start,
                         start_index |-> start, end_index |-> end,
                         has_more |-> end < total, max_results |-> max_results]]

\* The number of entries of a raw map.
RECURSIVE TotalOf(_)
TotalOf(raw) == IF raw = <<>> THEN 0 ELSE Len(Head(raw).entries) + TotalOf(Tail(raw))

\* A call of the helper: start_index up to past the end, max_results None or
\* up to more than there is.
Paginate(raw, start_index, max_results) ==
    /\ pg_pc = "idle"
    /\ pg_pc' = "done"
    /\ pg_in' = [raw |-> raw, start_index |-> start_index, max_results |-> max_results]
    /\ pg_out' = _paginate_results(raw, start_index, max_results)
    /\ UNCHANGED <<shallow, go, deep, kt, th>>

\* The helper's result is taken.
PaginateReturn ==
    /\ pg_pc = "done"
    /\ pg_pc' = "idle"
    /\ pg_in' = NoPgIn
    /\ pg_out' = NoPgOut
    /\ UNCHANGED <<shallow, go, deep, kt, th>>

InitPaginate ==
    /\ Fresh
    /\ base_path = ""
    /\ op = "idle"
    /\ arg = NoArg
    /\ ret = Returns(FALSE)
    /\ queried = <<>>
    /\ GoIdle
    /\ DeepIdle
    /\ PgIdle
    /\ KtIdle
    /\ ThIdle

NextPaginate ==
    \/ /\ pg_pc = "idle"
       /\ \E raw \in RawResults :
            \E start_index \in 0..(TotalOf(raw) + 1) :
              \E max_results \in {PgNone} \cup {PgInt(m) : m \in 1..(TotalOf(raw) + 1)} :
                  Paginate(raw, start_index, max_results)
    \/ PaginateReturn

\* The pagination helper on every raw map, start and limit.
SpecPaginate == InitPaginate /\ [][NextPaginate]_vars

\* ------------------------------------------------ KotlinParsingStrategy

\* A node of the syntax tree with its depth below the root, by the text it
\* stands for:
\*   class_declaration     class Name { ... }
\*   function_declaration  fun Name() { ... }
\*   call_expression       Name()
\*   import_header         import Name
\* name is what _get_kotlin_type_name, _get_kotlin_function_name,
\* _get_called_function_name or _extract_kotlin_import_from_node finds.
KtNode(type, name, depth) == [type |-> type, name |-> name, depth |-> depth]

\* The top-level declarations of the files, each with the nodes below it:
\*   import p
\*   fun m() {}
\*   fun F() { m() }
\*   fun F() { m(); m() }
\*   fun G() { m() }
\*   class A { fun m() {} }
\*   class B { fun m() {} }
\*   class C { val x = m(); fun F() { m() } }
KtDeclValues ==
    {<<KtNode("import_header", "p", 0)>>,
     <<KtNode("function_declaration", "m", 0)>>,
     <<KtNode("function_declaration", "F", 0), KtNode("call_expression", "m", 1)>>,
     <<KtNode("function_declaration", "F", 0), KtNode("call_expression", "m", 1),
       KtNode("call_expression", "m", 1)>>,
     <<KtNode("function_declaration", "G", 0), KtNode("call_expression", "m", 1)>>,
     <<KtNode("class_declaration", "A", 0), KtNode("function_declaration", "m", 1)>>,
     <<KtNode("class_declaration", "B", 0), KtNode("function_declaration", "m", 1)>>,
     <<KtNode("class_declaration", "C", 0), KtNode("call_expression", "m", 1),
       KtNode("function_declaration", "F", 1), KtNode("call_expression", "m", 2)>>}

\* A file the Kotlin compiler accepts: imports first and no class declared
\* twice.  A function declared twice is a pair of overloads.
ValidKt(decls) ==
    /\ \A i, j \in 1..Len(decls) :
        (i < j /\ decls[i][1].type = "class_declaration") => decls[i] # decls[j]
    /\ \A i \in 1..Len(decls) :
        decls[i][1].type = "import_header" =>
            \A j \in 1..(i - 1) : decls[j][1].type = "import_header"

RECURSIVE KtFlatten(_)
KtFlatten(decls) ==
    IF decls = <<>> THEN <<>> ELSE Head(decls) \o KtFlatten(Tail(decls))

KtInputs ==
    {KtFlatten(d) : d \in {e \in UNION {[1..n -> KtDeclValues] : n \in 0..MaxKtDecls} :
                              ValidKt(e)}}

KtPaths == {<<"a", ".", "k", "t">>}

\* The nodes _traverse_node_single_pass has gone through on its way down to
\* node i.
KtAncestors(nodes, i) ==
    {j \in 1..(i - 1) :
        /\ nodes[j].depth < nodes[i].depth
        /\ \A k \in (j + 1)..i : nodes[k].depth > nodes[j].depth}

\* The nearest of them of the given type, 0 if there is none.
KtNearest(nodes, i, type) ==
    LET S == {j \in KtAncestors(nodes, i) : nodes[j].type = type}
    IN  IF S = {} THEN 0 ELSE CHOOSE j \in S : \A k \in S : k <= j

\* The current_class argument at node i, <<>> for None: a class node passes
\* its name to its children, every other node passes what it got.
current_class(nodes, i) ==
    LET j == KtNearest(nodes, i, "class_declaration")
    IN  IF j = 0 THEN <<>> ELSE <<nodes[j].name>>

\* full_name of the function declared at node i.
full_name(nodes, i) ==
    IF current_class(nodes, i) # <<>>
    THEN current_class(nodes, i) \o <<".", nodes[i].name>>
    ELSE <<nodes[i].name>>

\* The current_function argument at node i, <<>> for None: a function node
\* passes its symbol id to its children, every other node passes what it got.
current_function(file_path, nodes, i) ==
    LET j == KtNearest(nodes, i, "function_declaration")
    IN  IF j = 0 THEN <<>> ELSE _create_symbol_id(file_path, full_name(nodes, j))

\* key in dict, dict[key], on a dict kept as the sequence of its items
DictHas(d, k) == \E i \in 1..Len(d) : d[i].id = k

DictGet(d, k) == d[CHOOSE i \in 1..Len(d) : d[i].id = k].info

\* name.endswith(suffix)
EndsWith(name, suffix) ==
    /\ Len(name) >= Len(suffix)
    /\ SubSeq(name, Len(name) - Len(suffix) + 1, Len(name)) = suffix

\* if symbol_info and caller not in symbol_info.called_by: append
AddCaller(symbols, symbol_id, caller) ==
    [k \in 1..Len(symbols) |->
        IF symbols[k].id = symbol_id
        THEN [symbols[k] EXCEPT !.info.called_by = AppendOnce(@, caller)]
        ELSE symbols[k]]

\* The traversal context, the part _register_call works on.
Context(symbols, symbol_lookup, pending_calls, pending_call_set) ==
    [symbols |-> symbols, symbol_lookup |-> symbol_lookup,
     pending_calls |-> pending_calls, pending_call_set |-> pending_call_set]

\* _register_call that drops what it cannot resolve
RegisterCallNoDefer(context, caller, called) ==
    IF DictHas(context.symbol_lookup, <<called>>)
    THEN [context EXCEPT
             !.symbols = AddCaller(@, DictGet(context.symbol_lookup, <<called>>), caller)]
    ELSE context

\* _register_call
_register_call(context, caller, called) ==
    IF DictHas(context.symbol_lookup, <<called>>)
    THEN [context EXCEPT
             !.symbols = AddCaller(@, DictGet(context.symbol_lookup, <<called>>), caller)]
    ELSE LET suffix == <<".", called>>
             matches == {i \in 1..Len(context.symbol_lookup) :
                            EndsWith(context.symbol_lookup[i].id, suffix)}
             key == <<caller, called>>
         IN  IF Cardinality(matches) = 1
             THEN [context EXCEPT
                      !.symbols = AddCaller(@,
                          context.symbol_lookup[CHOOSE i \in matches : TRUE].info, caller)]
             ELSE IF key \notin context.pending_call_set
             THEN [context EXCEPT !.pending_call_set = @ \cup {key},
                                  !.pending_calls = Append(@, key)]
             ELSE context

\* Preserve order, remove duplicates.
RECURSIVE Deduped(_)
Deduped(results) ==
    IF results = <<>> THEN <<>>
    ELSE LET front == Deduped(SubSeq(results, 1, Len(results) - 1))
             item == results[Len(results)]
         IN  IF \E k \in 1..Len(front) : front[k] = item THEN front
             ELSE Append(front, item)

\* _extract_kotlin_imports_fallback: the imports above the first line of
\* code.
RECURSIVE LeadingImports(_)
LeadingImports(nodes) ==
    IF nodes = <<>> \/ Head(nodes).type # "import_header" THEN <<>>
    ELSE <<Head(nodes).name>> \o LeadingImports(Tail(nodes))

_extract_kotlin_imports_fallback(nodes) == Deduped(LeadingImports(nodes))

\* parse_file before it parses: empty collections.
InitKotlin ==
    /\ Fresh
    /\ base_path = ""
    /\ op = "idle"
    /\ arg = NoArg
    /\ ret = Returns(FALSE)
    /\ queried = <<>>
    /\ GoIdle
    /\ DeepIdle
    /\ PgIdle
    /\ ThIdle
    /\ kt_pc = "start"
    /\ kt_file \in KtPaths
    /\ kt_nodes \in KtInputs
    /\ kt_i = 1
    /\ kt_symbols = <<>>
    /\ kt_symbol_lookup = <<>>
    /\ kt_functions = <<>>
    /\ kt_classes = <<>>
    /\ kt_imports = <<>>
    /\ kt_pending_calls = <<>>
    /\ kt_pending_call_set = {}

\* parse_file up to the traversal: the imports of the header.
KtStart ==
    /\ kt_pc = "start"
    /\ kt_pc' = "walk"
    /\ kt_imports' = _extract_kotlin_imports_fallback(kt_nodes)
    /\ UNCHANGED <<kt_file, kt_nodes, kt_i, kt_symbols, kt_symbol_lookup, kt_functions,
                   kt_classes, kt_pending_calls, kt_pending_call_set>>
    /\ UNCHANGED <<shallow, go, deep, pg, th>>

\* _traverse_node_single_pass on a class, object or interface declaration.
KtClass ==
    /\ kt_pc = "walk"
    /\ kt_i <= Len(kt_nodes)
    /\ kt_nodes[kt_i].type = "class_declaration"
    /\ LET name == <<kt_nodes[kt_i].name>>
           symbol_id == _create_symbol_id(kt_file, name)
       IN  /\ kt_symbols' = DictSet(kt_symbols, symbol_id,
                                    SymbolInfo("class", kt_file, kt_i, <<>>, <<>>))
           /\ kt_symbol_lookup' = DictSet(kt_symbol_lookup, name, symbol_id)
           /\ kt_classes' = Append(kt_classes, name)
    /\ kt_i' = kt_i + 1
    /\ UNCHANGED <<kt_pc, kt_file, kt_nodes, kt_functions, kt_imports,
                   kt_pending_calls, kt_pending_call_set>>
    /\ UNCHANGED <<shallow, go, deep, pg, th>>

\* _traverse_node_single_pass on a function declaration.
KtFunction ==
    /\ kt_pc = "walk"
    /\ kt_i <= Len(kt_nodes)
    /\ kt_nodes[kt_i].type = "function_declaration"
    /\ LET name == <<kt_nodes[kt_i].name>>
           full == full_name(kt_nodes, kt_i)
           symbol_kind == IF current_class(kt_nodes, kt_i) # <<>> THEN "method"
                          ELSE "function"
           symbol_id == _create_symbol_id(kt_file, full)
       IN  /\ kt_symbols' = DictSet(kt_symbols, symbol_id,
                                    SymbolInfo(symbol_kind, kt_file, kt_i, kt_nodes[kt_i], <<>>))
           /\ kt_symbol_lookup' = DictSet(DictSet(kt_symbol_lookup, full, symbol_id),
                                          name, symbol_id)
           /\ kt_functions' = Append(kt_functions, full)
    /\ kt_i' = kt_i + 1
    /\ UNCHANGED <<kt_pc, kt_file, kt_nodes, kt_classes, kt_imports,
                   kt_pending_calls, kt_pending_call_set>>
    /\ UNCHANGED <<shallow, go, deep, pg, th>>

\* _traverse_node_single_pass on a call expression.
KtCall ==
    /\ kt_pc = "walk"
    /\ kt_i <= Len(kt_nodes)
    /\ kt_nodes[kt_i].type = "call_expression"
    /\ LET caller == current_function(kt_file, kt_nodes, kt_i)
           context == Context(kt_symbols, kt_symbol_lookup, kt_pending_calls,
                              kt_pending_call_set)
           after == IF caller # <<>>
                    THEN _register_call(context, caller, kt_nodes[kt_i].name)
                    ELSE context
       IN  /\ kt_symbols' = after.symbols
           /\ kt_pending_calls' = after.pending_calls
           /\ kt_pending_call_set' = after.pending_call_set
    /\ kt_i' = kt_i + 1
    /\ UNCHANGED <<kt_pc, kt_file, kt_nodes, kt_symbol_lookup, kt_functions, kt_classes,
                   kt_imports>>
    /\ UNCHANGED <<shallow, go, deep, pg, th>>

\* _traverse_node_single_pass on an import.
KtImport ==
    /\ kt_pc = "walk"
    /\ kt_i <= Len(kt_nodes)
    /\ kt_nodes[kt_i].type = "import_header"
    /\ LET import_path == kt_nodes[kt_i].name
       IN  kt_imports' = IF \E k \in 1..Len(kt_imports) : kt_imports[k] = import_path
                         THEN kt_imports ELSE Append(kt_imports, import_path)
    /\ kt_i' = kt_i + 1
    /\ UNCHANGED <<kt_pc, kt_file, kt_nodes, kt_symbols, kt_symbol_lookup, kt_functions,
                   kt_classes, kt_pending_calls, kt_pending_call_set>>
    /\ UNCHANGED <<shallow, go, deep, pg, th>>

\* parse_file returns symbols and file_info.
KtReturn ==
    /\ kt_pc = "walk"
    /\ kt_i > Len(kt_nodes)
    /\ kt_pc' = "done"
    /\ UNCHANGED <<kt_file, kt_nodes, kt_i, kt_symbols, kt_symbol_lookup, kt_functions,
                   kt_classes, kt_imports, kt_pending_calls, kt_pending_call_set>>
    /\ UNCHANGED <<shallow, go, deep, pg, th>>

NextKotlin == KtStart \/ KtClass \/ KtFunction \/ KtCall \/ KtImport \/ KtReturn

\* KotlinParsingStrategy.parse_file on each Kotlin file.
SpecKotlin == InitKotlin /\ [][NextKotlin]_vars

\* ------------------------------------- threads on one ShallowIndexManager

\* The calls the threads make.
ThreadPatterns == {PyStr(<<"*">>), PyStr(<<"a">>)}

ThreadCalls ==
    {ThreadCall("set_project_path", d, PyNone) : d \in ProjectDirs}
    \cup {ThreadCall(o, "None", PyNone) :
              o \in {"build_index", "load_index", "get_file_list", "cleanup"}}
    \cup {ThreadCall("find_files", "None", p) : p \in ThreadPatterns}

\* A path that no project holds: what a caller appends to a list it got.
f_junk == <<"a", "?">>

\* What a thread's step leaves alone besides the manager and the threads.
th_rest == <<base_path, op, arg, ret, queried, go, deep, pg, kt>>

\* A thread calls a method and comes to its `with self._lock:`.
ThCall(t, call) ==
    /\ th_pc[t] = "idle"
    /\ th_pc' = [th_pc EXCEPT ![t] = "acquire"]
    /\ th_call' = [th_call EXCEPT ![t] = call]
    /\ th_ret' = [th_ret EXCEPT ![t] = NoThreadResult]
    /\ UNCHANGED <<th_lock, th_local, manager, disk, th_rest>>

\* A lock that never makes a thread wait
LockIgnored == TRUE

\* No thread holds the lock.
LockFree == th_lock = ""

\* The thread gets the lock and enters the method's body.
ThAcquire(t) ==
    /\ th_pc[t] = "acquire"
    /\ LockFree
    /\ th_lock' = t
    /\ th_pc' = [th_pc EXCEPT ![t] = th_call[t].op]
    /\ UNCHANGED <<th_call, th_local, th_ret, manager, disk, th_rest>>

\* The end of the `with` block: the method returns and the lock is released.
ThReturns(t, result) ==
    /\ th_pc' = [th_pc EXCEPT ![t] = "idle"]
    /\ th_lock' = ""
    /\ th_local' = [th_local EXCEPT ![t] = <<>>]
    /\ th_ret' = [th_ret EXCEPT ![t] = result]

\* The thread goes on to its next statement.
ThGoes(t, label) ==
    /\ th_pc' = [th_pc EXCEPT ![t] = label]
    /\ UNCHANGED <<th_lock, th_ret>>

\* _file_list gets a new list object: a list handed out before is no longer
\* the manager's.
Detached(rets) == [t \in Threads |-> [rets[t] EXCEPT !.list.alias = FALSE]]

\* set_project_path, statement by statement (the path is a directory).
ThSetProjectPath(t) ==
    /\ th_pc[t] = "set_project_path"
    /\ project_path' = th_call[t].path
    /\ ThGoes(t, "sp_builder")
    /\ UNCHANGED <<index_builder, temp_dir, index_path, file_list, th_call, th_local,
                   disk, th_rest>>

ThSetBuilder(t) ==
    /\ th_pc[t] = "sp_builder"
    /\ index_builder' = th_call[t].path
    /\ ThGoes(t, "sp_temp_dir")
    /\ UNCHANGED <<project_path, temp_dir, index_path, file_list, th_call, th_local,
                   disk, th_rest>>

ThSetTempDir(t) ==
    /\ th_pc[t] = "sp_temp_dir"
    /\ temp_dir' = th_call[t].path
    /\ ThGoes(t, "sp_index_path")
    /\ UNCHANGED <<project_path, index_builder, index_path, file_list, th_call, th_local,
                   disk, th_rest>>

ThSetIndexPath(t) ==
    /\ th_pc[t] = "sp_index_path"
    /\ index_path' = th_call[t].path
    /\ ThReturns(t, ThreadResult("set_project_path", FALSE, ListObject(<<>>, FALSE), ""))
    /\ UNCHANGED <<project_path, index_builder, temp_dir, file_list, th_call, disk, th_rest>>

\* build_index: the test and the walk, the write of the document, the update
\* of the in-memory list.
ThBuildWalk(t) ==
    /\ th_pc[t] = "build_index"
    /\ IF index_builder = "None" \/ index_path = "None"
       THEN /\ ThReturns(t, ThreadResult("build_index", FALSE, ListObject(<<>>, FALSE), ""))
       ELSE /\ th_local' = [th_local EXCEPT ![t] = build_shallow_file_list(index_builder)]
            /\ ThGoes(t, "b_write")
    /\ UNCHANGED <<manager, th_call, disk, th_rest>>

ThBuildWrite(t) ==
    /\ th_pc[t] = "b_write"
    /\ disk' = IF index_path = "None" THEN disk
               ELSE [disk EXCEPT ![index_path] = DumpDoc(th_local[t])]
    /\ ThGoes(t, "b_assign")
    /\ UNCHANGED <<manager, th_call, th_local, th_rest>>

ThBuildAssign(t) ==
    /\ th_pc[t] = "b_assign"
    /\ file_list' = SomeList(th_local[t])
    /\ ThReturns(t, ThreadResult("build_index", FALSE, ListObject(<<>>, FALSE), ""))
    /\ UNCHANGED <<project_path, index_builder, temp_dir, index_path, th_call, disk, th_rest>>

\* load_index: the test and the read of the document, the update of the
\* in-memory list.
ThLoadRead(t) ==
    /\ th_pc[t] = "load_index"
    /\ IF index_path = "None" \/ ~disk[index_path].exists
       THEN /\ ThReturns(t, ThreadResult("load_index", FALSE, ListObject(<<>>, FALSE), ""))
       ELSE /\ th_local' = [th_local EXCEPT ![t] = disk[index_path]]
            /\ ThGoes(t, "l_assign")
    /\ UNCHANGED <<manager, th_call, disk, th_rest>>

ThLoadAssign(t) ==
    /\ th_pc[t] = "l_assign"
    /\ file_list' = IF th_local[t].isList THEN SomeList(NormalizeDoc(th_local[t].items))
                    ELSE file_list
    /\ ThReturns(t, ThreadResult("load_index", FALSE, ListObject(<<>>, FALSE), ""))
    /\ UNCHANGED <<project_path, index_builder, temp_dir, index_path, th_call, disk, th_rest>>

\* list(x) that hands out x itself
ListSame(items) == ListObject(items, TRUE)

\* list(x): a new list object with the items of x
ListCopy(items) == ListObject(items, FALSE)

\* get_file_list
ThGetFileList(t) ==
    /\ th_pc[t] = "get_file_list"
    /\ ThReturns(t, ThreadResult("get_file_list", TRUE, ListCopy(OrEmpty(file_list)), ""))
    /\ UNCHANGED <<manager, th_call, disk, th_rest>>

\* find_files: files = self._file_list or [], then the stages on files.
ThFindRead(t) ==
    /\ th_pc[t] = "find_files"
    /\ th_local' = [th_local EXCEPT ![t] = OrEmpty(file_list)]
    /\ ThGoes(t, "f_match")
    /\ UNCHANGED <<manager, th_call, disk, th_rest>>

ThFindMatch(t) ==
    /\ th_pc[t] = "f_match"
    /\ LET result == FindFilesIn(th_local[t], th_call[t].pattern)
       IN  ThReturns(t, ThreadResult("find_files", TRUE, ListCopy(result.files),
                                     result.match_type))
    /\ UNCHANGED <<manager, th_call, disk, th_rest>>

\* cleanup: the four paths, then the list.
ThCleanupPaths(t) ==
    /\ th_pc[t] = "cleanup"
    /\ project_path' = "None"
    /\ index_builder' = "None"
    /\ temp_dir' = "None"
    /\ index_path' = "None"
    /\ ThGoes(t, "c_file_list")
    /\ UNCHANGED <<file_list, th_call, th_local, disk, th_rest>>

ThCleanupList(t) ==
    /\ th_pc[t] = "c_file_list"
    /\ file_list' = NoneList
    /\ ThReturns(t, ThreadResult("cleanup", FALSE, ListObject(<<>>, FALSE), ""))
    /\ UNCHANGED <<project_path, index_builder, temp_dir, index_path, th_call, disk, th_rest>>

\* The caller appends a path to the list it got.  A list that is the
\* manager's own object changes for the manager too.
ThMutate(t) ==
    /\ th_pc[t] = "idle"
    /\ th_ret[t].has_list
    /\ \A k \in 1..Len(th_ret[t].list.items) : th_ret[t].list.items[k] # f_junk
    /\ LET shared == th_ret[t].list.alias /\ ~file_list.isNone
       IN  /\ th_ret' = [u \in Threads |->
                   IF u = t \/ (shared /\ th_ret[u].list.alias)
                   THEN [th_ret[u] EXCEPT !.list.items = Append(@, f_junk)]
                   ELSE th_ret[u]]
           /\ file_list' = IF shared THEN SomeList(Append(file_list.items, f_junk))
                           ELSE file_list
    /\ UNCHANGED <<project_path, index_builder, temp_dir, index_path, th_pc, th_call,
                   th_lock, th_local, disk, th_rest>>

InitThreads ==
    /\ Fresh
    /\ base_path = ""
    /\ op = "idle"
    /\ arg = NoArg
    /\ ret = Returns(FALSE)
    /\ queried = <<>>
    /\ GoIdle
    /\ DeepIdle
    /\ PgIdle
    /\ KtIdle
    /\ ThIdle

NextThreads ==
    \/ \E t \in {u \in Threads : th_pc[u] = "idle"} : \E call \in ThreadCalls : ThCall(t, call)
    \/ \E t \in Threads : ThAcquire(t)
    \/ \E t \in Threads : ThSetProjectPath(t)
    \/ \E t \in Threads : ThSetBuilder(t)
    \/ \E t \in Threads : ThSetTempDir(t)
    \/ \E t \in Threads : ThSetIndexPath(t)
    \/ \E t \in Threads : ThBuildWalk(t)
    \/ \E t \in Threads : ThBuildWrite(t)
    \/ \E t \in Threads : ThBuildAssign(t)
    \/ \E t \in Threads : ThLoadRead(t)
    \/ \E t \in Threads : ThLoadAssign(t)
    \/ \E t \in Threads : ThGetFileList(t)
    \/ \E t \in Threads : ThFindRead(t)
    \/ \E t \in Threads : ThFindMatch(t)
    \/ \E t \in Threads : ThCleanupPaths(t)
    \/ \E t \in Threads : ThCleanupList(t)
    \/ \E t \in Threads : ThMutate(t)

\* Threads that call the methods of one manager at the same time.
SpecThreads == InitThreads /\ [][NextThreads]_vars

\* ============================================================= properties

\* The call in progress and its parts.
FoundBy(o) == op = o /\ ret.exc = ""

StrCall(o) == FoundBy(o) /\ IsInstanceStr(arg.pattern)

Norm == NormalizePattern(arg.pattern.val)

Stored == OrEmpty(file_list)

\* The paths of F that the stage's regex matches, in the order of F.
Hits(F, pat, ci) ==
    LET Test(f) == RegexMatch(_compile_glob_regex(pat, ci), f) IN SelectSeq(F, Test)

Recursive(pat) == <<"*", "*", "/">> \o pat

StageHits(F, pat) ==
    <<Hits(F, pat, FALSE), Hits(F, Recursive(pat), FALSE),
      Hits(F, pat, TRUE), Hits(F, Recursive(pat), TRUE)>>

StageNames == <<"exact", "recursive", "case_insensitive_root", "case_insensitive_recursive">>

\* C1: find_files on a pattern whose normalized form is not * and has no /
\* returns the files and the match_type of the first of the stages exact,
\* recursive, case_insensitive_root, case_insensitive_recursive whose match
\* set is not empty, and no_match with no files when all four are empty.
C1_FirstNonemptyStage ==
    (StrCall("find_files") /\ Norm # <<"*">> /\ ~Contains(Norm, "/")) =>
        LET st == StageHits(Stored, Norm)
            nonempty == {k \in 1..4 : st[k] # <<>>}
        IN  IF nonempty = {}
            THEN ret.val.match_type = "no_match" /\ ret.val.files = <<>>
            ELSE LET k == CHOOSE n \in nonempty : \A o \in nonempty : n <= o
                 IN  ret.val.match_type = StageNames[k] /\ ret.val.files = st[k]

\* A recursive result returned while the case-insensitive root stage would
\* have matched too.
C1_Witness ==
    /\ StrCall("find_files") /\ Norm # <<"*">> /\ ~Contains(Norm, "/")
    /\ ret.val.match_type = "recursive"
    /\ Hits(Stored, Norm, TRUE) # <<>>

RECURSIVE IsSubsequence(_, _)
IsSubsequence(r, F) ==
    IF r = <<>> THEN TRUE
    ELSE IF F = <<>> THEN FALSE
    ELSE IF Head(r) = Head(F) THEN IsSubsequence(Tail(r), Tail(F))
    ELSE IsSubsequence(r, Tail(F))

\* C2: the files find_files returns are a subsequence of the stored file
\* list: only its paths, none more often than stored, in the stored order.
C2_Subsequence == FoundBy("find_files") => IsSubsequence(ret.val.files, Stored)

\* Two or more paths returned, and not the whole list.
C2_Witness ==
    /\ FoundBy("find_files")
    /\ Len(ret.val.files) >= 2
    /\ Len(ret.val.files) < Len(Stored)

\* The glob rules as specified: ** any string, * any string
\* without /, ? one character other than /, any other character itself, and
\* the whole path matched.
RECURSIVE GlobMatches(_, _, _, _)
GlobMatches(pat, i, s, j) ==
    IF i > Len(pat) THEN j = Len(s) + 1
    ELSE IF pat[i] = "*" /\ i + 1 <= Len(pat) /\ pat[i + 1] = "*"
         THEN \E k \in j..(Len(s) + 1) : GlobMatches(pat, i + 2, s, k)
    ELSE IF pat[i] = "*"
         THEN \E k \in j..(Len(s) + 1) :
                  /\ \A m \in j..(k - 1) : s[m] # "/"
                  /\ GlobMatches(pat, i + 1, s, k)
    ELSE IF pat[i] = "?"
         THEN j <= Len(s) /\ s[j] # "/" /\ GlobMatches(pat, i + 1, s, j + 1)
    ELSE j <= Len(s) /\ s[j] = pat[i] /\ GlobMatches(pat, i + 1, s, j + 1)

GlobHits(F, pat) == LET Test(f) == GlobMatches(pat, 1, f, 1) IN SelectSeq(F, Test)

\* C3: a path matches a normalized pattern iff the whole path is matched
\* under the glob rules; so the exact stage of find_files returns the paths
\* the rules match, and is passed over only when they match none.
C3_GlobRules ==
    (StrCall("find_files") /\ Norm # <<"*">>) =>
        IF GlobHits(Stored, Norm) # <<>>
        THEN ret.val.match_type = "exact" /\ ret.val.files = GlobHits(Stored, Norm)
        ELSE ret.val.match_type # "exact"

\* C4: a pattern whose normalized form contains / gets exact with the
\* case-sensitive matches, or no_match with no files; never a lenient stage.
C4_SeparatorBypassesLenient ==
    (StrCall("find_files") /\ Contains(Norm, "/")) =>
        IF Hits(Stored, Norm, FALSE) # <<>>
        THEN ret.val.match_type = "exact" /\ ret.val.files = Hits(Stored, Norm, FALSE)
        ELSE ret.val.match_type = "no_match" /\ ret.val.files = <<>>

\* no_match for a pattern with / that a lenient stage would have matched.
C4_Witness ==
    /\ StrCall("find_files") /\ Contains(Norm, "/")
    /\ ret.val.match_type = "no_match"
    /\ \E k \in 2..4 : StageHits(Stored, Norm)[k] # <<>>

\* The normalized form as specified: trimmed, backslashes turned to
\* slashes, a leading ./ stripped.
ClaimedNorm(pattern) ==
    LET n == ReplaceBS(Strip(pattern))
    IN  IF StartsWith(n, <<".", "/">>) THEN SubSeq(n, 3, Len(n)) ELSE n

\* C5: a string pattern whose normalized form is empty or * gets the complete
\* stored file list, in stored order, with match_type all.
C5_EmptyOrStarIsAll ==
    (StrCall("find_files") /\ ClaimedNorm(arg.pattern.val) \in {<<>>, <<"*">>}) =>
        ret.val.match_type = "all" /\ ret.val.files = Stored

Blank(pattern) == IsInstanceStr(pattern) /\ Strip(pattern.val) = <<>>

\* C7: the service's find_files raises ValueError without querying the manager
\* when no project is initialized or the pattern is empty or only whitespace;
\* with any other string pattern it passes the unchanged pattern to the
\* manager.
C7_ValidationBeforeQuery ==
    op = "service_find_files" =>
        /\ (base_path = "" \/ Blank(arg.pattern)) =>
               (ret.exc = "ValueError" /\ queried = <<>>)
        /\ (base_path # "" /\ IsInstanceStr(arg.pattern) /\ ~Blank(arg.pattern)) =>
               (ret.exc = "" /\ queried = <<arg.pattern>>)

\* A whitespace-only pattern rejected on an initialized project.
C7_Witness ==
    /\ op = "service_find_files"
    /\ base_path # ""
    /\ arg.pattern = PyStr(<<NL>>)
    /\ ret.exc = "ValueError"

Min(a, b) == IF a < b THEN a ELSE b

\* C8: with a positive max_results m the service returns the first min(m, n)
\* paths of the manager's n-path result, in order, with the manager's
\* match_type, original_pattern and applied_pattern.
C8_TruncatesToMaxResults ==
    (FoundBy("service_find_files") /\ arg.max_results.type = "int"
                                   /\ arg.max_results.val > 0) =>
        LET full == FindFilesIn(Stored, arg.pattern)
            m == arg.max_results.val
        IN  /\ ret.val.files = SubSeq(full.files, 1, Min(m, Len(full.files)))
            /\ ret.val.match_type = full.match_type
            /\ ret.val.original_pattern = full.original_pattern
            /\ ret.val.applied_pattern = full.applied_pattern

\* A result cut short: the manager found more paths than max_results.
C8_Witness ==
    /\ FoundBy("service_find_files") /\ arg.max_results.type = "int"
    /\ arg.max_results.val > 0
    /\ Len(ret.val.files) = arg.max_results.val
    /\ Len(FindFilesIn(Stored, arg.pattern).files) > arg.max_results.val

\* C9: set_project_path(path, additional_excludes=E) returns True for an
\* existing directory (and the build_index that follows lists no path under a
\* directory named in E).
C9_AcceptsAdditionalExcludes ==
    (op = "set_project_path" /\ arg.excludes.given
        /\ arg.path.type = "str" /\ IsDir(StripPath(arg.path.val))) =>
        ret = Returns(TRUE)

\* in_import_block as line i of the file is read.
RECURSIVE InImportBlockAt(_, _)
InImportBlockAt(lines, i) ==
    IF i = 1 THEN FALSE
    ELSE LET before == InImportBlockAt(lines, i - 1)
             line == lines[i - 1]
         IN  IF StartsWithImport(line) THEN TRUE
             ELSE before /\ ~HasCloseParen(line)

\* The declarations of the file that parse_file has read so far: the lines it
\* took for a func, method, struct or interface declaration.
GoDeclared ==
    {i \in 1..(go_i - 1) : IsGoDecl(go_lines[i]) /\ ~InImportBlockAt(go_lines, i)}

\* C10: symbol IDs are unique per index: distinct indexed declarations are
\* stored under different IDs, so none overwrites another: the symbols map
\* holds one symbol for each declaration read, under an ID of the file's path.
C10_SymbolIdsUnique ==
    /\ \A i \in GoDeclared :
           \E k \in 1..Len(go_symbols) :
               /\ go_symbols[k].info.line = i
               /\ go_symbols[k].id[1] = go_file
    /\ Len(go_symbols) = Cardinality(GoDeclared)

\* The IDs of the symbols map.
GoSymbolIds == {go_symbols[k].id : k \in 1..Len(go_symbols)}

\* C11: for every symbol s that parse_file returns and every caller in
\* s.called_by, caller is the ID of a symbol of the returned map and is not
\* s's own ID, also when s calls itself.
C11_CallersAreOtherSymbols ==
    go_pc = "done" =>
        \A k \in 1..Len(go_symbols) :
            \A c \in 1..Len(go_symbols[k].info.called_by) :
                LET caller == go_symbols[k].info.called_by[c]
                IN  caller \in GoSymbolIds /\ caller # go_symbols[k].id

\* C12: deep index persistence is all-or-nothing.  While a build_index run
\* has not committed, and after a run that failed or was cancelled, the rows
\* of the store are the rows committed when the run began, and a reader gets
\* the statistics of those rows; the rows change only in the step of the
\* final commit.
C12_AllOrNothing ==
    /\ []((deep_pc # "idle" \/ deep_ret = BuildResult(FALSE)) => deep_db.rows = deep_prior)
    /\ [][(deep_pc' # "idle" \/ deep_ret' = BuildResult(FALSE)) =>
              (deep_stats' # deep_stats => deep_stats' = StatsOf(deep_prior'))]_vars
    /\ [][deep_db'.rows # deep_db.rows =>
              (deep_pc = "txn" /\ deep_todo = <<>> /\ deep_ret' = BuildResult(TRUE))]_vars

\* A transaction that has written rows other than those committed before it.
C12_Witness ==
    /\ deep_pc = "txn"
    /\ deep_txn.files # {}
    /\ deep_prior.files # {}
    /\ deep_txn # deep_prior
    /\ deep_stats.read

\* The paths of a sequence.
Paths(F) == {F[i] : i \in 1..Len(F)}

\* C13: after cleanup(), and after a successful set_project_path() to another
\* project than the one indexed, the list that get_file_list() and
\* find_files() answer from holds no path of the project indexed before
\* (until a build_index or load_index of the new project brings its own).
C13_RecordsDestroyedOnReset ==
    [][(\/ op' = "cleanup"
        \/ /\ op' = "set_project_path"
           /\ ret' = Returns(TRUE)
           /\ project_path # "None"
           /\ project_path' # project_path)
       => Paths(OrEmpty(file_list')) \cap Paths(OrEmpty(file_list)) = {}]_vars

\* How often a row occurs in a sequence.
Occurrences(rows, r) == Cardinality({i \in 1..Len(rows) : rows[i] = r})

\* The place of a path among the paths in ascending order.
PathRank(q) == IF q = <<"a", ".", "b">> THEN 1 ELSE 2

\* Ordered by path ascending, then by line ascending.
InPathLineOrder(rows) ==
    \A i \in 1..(Len(rows) - 1) :
        \/ PathRank(rows[i].file) < PathRank(rows[i + 1].file)
        \/ rows[i].file = rows[i + 1].file /\ rows[i].line <= rows[i + 1].line

\* The entries of a raw map as rows, each as often as the map holds it.
EntriesOf(raw) ==
    {[file |-> raw[k].path, line |-> e.line, text |-> e.text] :
        <<k, e>> \in (1..Len(raw)) \X SearchEntries}

EntryCount(raw, r) ==
    LET ks == {k \in 1..Len(raw) : raw[k].path = r.file} IN
    IF ks = {} THEN 0
    ELSE LET k == CHOOSE x \in ks : TRUE
         IN  Cardinality({i \in 1..Len(raw[k].entries) :
                 raw[k].entries[i] = [line |-> r.line, text |-> r.text]})

Paginated == pg_pc = "done"

\* C14: with start_index 0 and max_results None the helper returns every
\* (path, line, text) entry of the raw map exactly once, ordered by path and
\* then by line whatever the order of the keys and of the lists;
\* total_matches and returned are the number of entries and has_more is false.
C14_AllRowsInOrder ==
    (Paginated /\ pg_in.start_index = 0 /\ ~pg_in.max_results.given) =>
        /\ \A r \in EntriesOf(pg_in.raw) :
               Occurrences(pg_out.rows, r) = EntryCount(pg_in.raw, r)
        /\ Len(pg_out.rows) = TotalOf(pg_in.raw)
        /\ InPathLineOrder(pg_out.rows)
        /\ pg_out.pagination.total_matches = TotalOf(pg_in.raw)
        /\ pg_out.pagination.returned = TotalOf(pg_in.raw)
        /\ pg_out.pagination.has_more = FALSE

\* A map whose keys and lists are both out of order, all of it returned.
C14_Witness ==
    /\ Paginated /\ pg_in.start_index = 0 /\ ~pg_in.max_results.given
    /\ Len(pg_in.raw) = 2
    /\ PathRank(pg_in.raw[1].path) > PathRank(pg_in.raw[2].path)
    /\ pg_in.raw[1].entries = <<[line |-> 12, text |-> "second"], [line |-> 3, text |-> "first"]>>
    /\ Len(pg_out.rows) >= 3

\* The whole (path, line)-ordered sequence of the call's raw map.
AllRows == _paginate_results(pg_in.raw, 0, PgNone).rows

\* C15: for 0 <= start_index < total_matches and a positive max_results m the
\* helper returns the rows at the positions [start_index, min(start_index + m,
\* total_matches)) of the ordered sequence, end_index is that minimum,
\* returned = end_index - start_index <= m, and has_more iff end_index <
\* total_matches.
C15_Window ==
    (Paginated /\ pg_in.max_results.given /\ pg_in.max_results.val > 0
               /\ pg_in.start_index < TotalOf(pg_in.raw)) =>
        LET total == TotalOf(pg_in.raw)
            m == pg_in.max_results.val
            end == Min(pg_in.start_index + m, total)
            info == pg_out.pagination
        IN  /\ pg_out.rows = SubSeq(AllRows, pg_in.start_index + 1, end)
            /\ info.total_matches = total
            /\ info.start_index = pg_in.start_index
            /\ info.end_index = end
            /\ info.returned = end - pg_in.start_index
            /\ info.returned = Len(pg_out.rows)
            /\ info.returned <= m
            /\ info.has_more = (end < total)

\* A window inside the rows, with rows before it and after it.
C15_Witness ==
    /\ Paginated /\ pg_in.max_results.given
    /\ pg_in.start_index = 1
    /\ pg_in.max_results.val = 2
    /\ TotalOf(pg_in.raw) = 4
    /\ pg_out.pagination.has_more

\* A window that the total cuts short.
C15_WitnessCut ==
    /\ Paginated /\ pg_in.max_results.given
    /\ pg_in.start_index < TotalOf(pg_in.raw)
    /\ pg_in.start_index + pg_in.max_results.val > TotalOf(pg_in.raw)

\* C16: for start_index >= total_matches, with or without max_results, the
\* helper returns no rows, returned = 0, start_index clipped to total_matches,
\* end_index = total_matches and has_more false.
C16_StartBeyondTotal ==
    (Paginated /\ pg_in.start_index >= TotalOf(pg_in.raw)) =>
        /\ pg_out.rows = <<>>
        /\ pg_out.pagination.returned = 0
        /\ pg_out.pagination.total_matches = TotalOf(pg_in.raw)
        /\ pg_out.pagination.start_index = TotalOf(pg_in.raw)
        /\ pg_out.pagination.end_index = TotalOf(pg_in.raw)
        /\ pg_out.pagination.has_more = FALSE

\* A start past the end of a map that has rows, with a limit.
C16_Witness ==
    /\ Paginated /\ pg_in.max_results.given
    /\ TotalOf(pg_in.raw) >= 1
    /\ pg_in.start_index > TotalOf(pg_in.raw)

\* The files of the tree, and those a build may index: not larger than the
\* maximum and with no NUL byte in the first chunk.
TreeFiles == {deep_tree[i] : i \in 1..Len(deep_tree)}

Binary(f) == f.nul = "first"

\* C17: a deep build never indexes a file whose first read chunk contains a NUL
\* byte: when build_index commits, no such file has a row in the files table
\* or a symbol, nor is it counted in indexed_files, and the other files (those
\* read without error and not over the size limit) are indexed as usual.
C17_BinaryFilesSkipped ==
    [][(deep_pc = "txn" /\ deep_ret' = BuildResult(TRUE)) =>
         LET rows == deep_db'.rows
             others == {f \in TreeFiles : ~Binary(f) /\ ~f.oversize}
         IN  /\ \A f \in TreeFiles : Binary(f) =>
                    /\ \A r \in rows.files : r.path # f.path
                    /\ \A y \in rows.symbols : y.file # f.path
             /\ StatsOf(rows).indexed_files <= Cardinality(others)
             /\ deep_acc.io_errors = 0 =>
                    /\ StatsOf(rows).indexed_files = Cardinality(others)
                    /\ rows.files = {FileRow(f.path, f.language) : f \in others}
                    /\ rows.symbols =
                           UNION {{SymbolRow(f.path, n) : n \in f.symbols} : f \in others}]_vars

\* A committed build of the tree with binary.index: main.py and notes.txt
\* (whose NUL byte comes later) are indexed, binary.index is not.
C17_Witness ==
    /\ deep_pc = "idle"
    /\ deep_ret = BuildResult(TRUE)
    /\ deep_tree = DeepTreeV1
    /\ deep_db.rows.files = {FileRow("main.py", "python"), FileRow("notes.txt", "unknown")}
    /\ deep_db.rows.symbols = {SymbolRow("main.py", "foo")}

\* C18: initialize_schema on a store with no schema_version creates the three
\* tables and records the current version; on a store of the current version
\* it succeeds and changes nothing; on a store of another version it fails
\* with the schema-mismatch error and leaves the version and all rows as they
\* were.
C18_InitializeSchema ==
    [][deep_ret'.call = "initialize_schema" =>
         IF deep_db.schema_version = "missing"
         THEN /\ deep_ret'.exc = ""
              /\ StoreTables \subseteq deep_db'.tables
              /\ deep_db'.schema_version = SCHEMA_VERSION
              /\ deep_db'.rows = deep_db.rows
         ELSE IF deep_db.schema_version = SCHEMA_VERSION
         THEN deep_ret'.exc = "" /\ deep_db' = deep_db
         ELSE deep_ret'.exc = "SQLiteSchemaMismatchError" /\ deep_db' = deep_db]_vars

\* A store of another version, refused and left with its rows.
C18_Witness ==
    /\ deep_ret.call = "initialize_schema"
    /\ deep_ret.exc = "SQLiteSchemaMismatchError"
    /\ deep_db.schema_version = "0"
    /\ deep_db.rows = StaleRows

\* A store created by the call.
C18_WitnessCreated ==
    /\ deep_ret.call = "initialize_schema"
    /\ deep_ret.exc = ""
    /\ deep_db = Store(StoreTables, SCHEMA_VERSION, NoRows)
    /\ deep_prior = NoRows

\* find_files("users.go") on the stored list src/users.go, test/users_test.go.
UsersGoAsked ==
    /\ StrCall("find_files")
    /\ arg.pattern = PyStr(<<"u", "s", "e", "r", "s", ".", "g", "o">>)
    /\ Stored = UsersTree

HasDoubleSlash(q) == \E i \in 1..(Len(q) - 1) : q[i] = "/" /\ q[i + 1] = "/"

\* C20: after a successful load_index every path of the in-memory list is
\* normalized, whatever the document held: no backslash, no leading ./, no
\* duplicate separator //.
C20_LoadedPathsNormalized ==
    (op = "load_index" /\ ret = Returns(TRUE)) =>
        \A i \in 1..Len(file_list.items) :
            LET q == file_list.items[i]
            IN  /\ ~Contains(q, BS)
                /\ ~StartsWith(q, <<".", "/">>)
                /\ ~HasDoubleSlash(q)

\* C23: a call name( or .name( on a line of function F that is not a func
\* header adds F to the called_by of a symbol only if the symbol's declared
\* name is exactly that name; a symbol whose name merely contains it is left
\* unchanged.
C23_ExactNameCalls ==
    [][(go_pc = "calls" /\ go_j' = go_j + 1) =>
        LET called == _extract_go_called_functions(go_lines[go_j])
        IN  \A k \in 1..Len(go_symbols) :
                go_symbols'[k].info.called_by # go_symbols[k].info.called_by =>
                    \E n \in 1..Len(called) : called[n] = SymbolIdName(go_symbols[k].id)]_vars

\* A line that is a comment, or the first or last line of one.
IsCommentLine(line) == line.kind \in {"comment", "block", "blockstart", "blockend"}

\* The first line of the run of // lines that ends at line i.
RECURSIVE RunStart(_, _)
RunStart(lines, i) ==
    IF i > 1 /\ lines[i - 1].kind = "comment" THEN RunStart(lines, i - 1) ELSE i

\* C24: the docstring of a Go declaration at line i is null when line i-1 is
\* blank or not a comment, holds no text of a line that is not a comment, and
\* is, when line i-1 is a // line, the texts of the maximal run of // lines
\* that ends at line i-1, joined by newlines in source order.
C24_DocstringFromCommentsAbove ==
    go_pc = "done" =>
        \A k \in 1..Len(go_symbols) :
            LET i == go_symbols[k].info.line
                doc == go_symbols[k].info.docstring
            IN  /\ (i = 1 \/ ~IsCommentLine(go_lines[i - 1])) => doc = <<>>
                /\ \A n \in 1..Len(doc) :
                       \/ doc[n] = NL
                       \/ \E j \in 1..Len(go_lines) :
                              IsCommentLine(go_lines[j]) /\ doc[n] = go_lines[j].name
                /\ (i > 1 /\ go_lines[i - 1].kind = "comment") =>
                       LET m == RunStart(go_lines, i - 1)
                       IN  doc = JoinLines([n \in 1..(i - m) |->
                                     IF go_lines[m + n - 1].name = "" THEN <<>>
                                     ELSE <<go_lines[m + n - 1].name>>])

\* The line of the first import of a path.
FirstImport(lines, path) ==
    CHOOSE i \in 1..Len(lines) :
        /\ lines[i].kind \in {"import", "quoted"} /\ lines[i].name = path
        /\ \A j \in 1..(i - 1) :
               ~(lines[j].kind \in {"import", "quoted"} /\ lines[j].name = path)

\* C25: file_info.imports lists each imported path exactly once, in the
\* order of its first occurrence in the source.
C25_ImportsOnce ==
    go_pc = "done" =>
        /\ \A i \in 1..Len(go_lines) :
               go_lines[i].kind \in {"import", "quoted"} =>
                   \E n \in 1..Len(go_imports) : go_imports[n] = go_lines[i].name
        /\ \A m, n \in 1..Len(go_imports) :
               m < n => /\ go_imports[m] # go_imports[n]
                        /\ FirstImport(go_lines, go_imports[m])
                               < FirstImport(go_lines, go_imports[n])

\* The traversal is at a call expression inside a function and handles it.
KtCallVisited ==
    /\ kt_pc = "walk"
    /\ kt_i <= Len(kt_nodes)
    /\ kt_nodes[kt_i].type = "call_expression"
    /\ current_function(kt_file, kt_nodes, kt_i) # <<>>
    /\ kt_i' = kt_i + 1

\* caller is in the called_by of the symbol with the given id.
InCalledBy(symbols, symbol_id, caller) ==
    \E k \in 1..Len(symbols) :
        /\ symbols[k].id = symbol_id
        /\ \E n \in 1..Len(symbols[k].info.called_by) :
               symbols[k].info.called_by[n] = caller

\* The nodes before node i that declare a function or a class named c.
DeclaredBefore(nodes, i, c) ==
    {j \in 1..(i - 1) :
        nodes[j].type \in {"function_declaration", "class_declaration"}
            /\ nodes[j].name = c}

C22_AmbiguousCallDeferred ==
    [][KtCallVisited =>
        LET F == current_function(kt_file, kt_nodes, kt_i)
            c == kt_nodes[kt_i].name
            methods == {k \in 1..Len(kt_symbols) :
                           /\ kt_symbols[k].info.type = "method"
                           /\ EndsWith(SymbolIdName(kt_symbols[k].id), <<".", c>>)}
            top == \E k \in 1..Len(kt_symbols) :
                       kt_symbols[k].id = _create_symbol_id(kt_file, <<c>>)
        IN  (Cardinality(methods) >= 2 /\ ~top) =>
                /\ kt_symbols' = kt_symbols
                /\ Occurrences(kt_pending_calls', <<F, c>>) = 1]_vars

\* s is the front of t.
IsPrefix(s, t) == Len(s) <= Len(t) /\ SubSeq(t, 1, Len(s)) = s

\* C26: during the parse of a file every called_by list is duplicate-free
\* and append-only: from one step to the next the list of a symbol keeps its
\* entries in their places and at most gains entries at its end.
C26_CalledByAppendOnly ==
    /\ [](\A k \in 1..Len(kt_symbols) :
            \A m, n \in 1..Len(kt_symbols[k].info.called_by) :
                m < n => kt_symbols[k].info.called_by[m] # kt_symbols[k].info.called_by[n])
    /\ [][\A k \in 1..Len(kt_symbols) : \A n \in 1..Len(kt_symbols') :
            kt_symbols[k].id = kt_symbols'[n].id =>
                IsPrefix(kt_symbols[k].info.called_by, kt_symbols'[n].info.called_by)]_vars

\* C27: for a max_results that is no positive integer (None, 0 or negative)
\* the service's find_files raises an error or returns the manager's complete
\* result unmodified, never a proper sub-list of it.
C27_NoLimitUnlessPositive ==
    (op = "service_find_files"
        /\ (arg.max_results.type = "NoneType" \/ arg.max_results.val <= 0)) =>
        \/ ret.exc # ""
        \/ ret.val = FindFilesIn(Stored, arg.pattern)

\* C28: the service's find_files on an initialized project with a pattern
\* that is no string raises TypeError or ValueError; it returns no result and
\* raises no other exception.
C28_NonStringPatternRejected ==
    (op = "service_find_files" /\ base_path # "" /\ ~IsInstanceStr(arg.pattern)) =>
        ret.exc \in {"TypeError", "ValueError"}

\* C30: whenever set_project_path returns False, project_path, index_builder,
\* temp_dir, index_path and the in-memory file list are exactly as before the
\* call; so a build_index never writes the file list of one project to the
\* index path of another.
C30_FailedSetPathChangesNothing ==
    /\ [][(op' = "set_project_path" /\ ret' = Returns(FALSE)) =>
            manager' = manager]_vars
    /\ [][(op' = "build_index" /\ ret' = Returns(TRUE)) =>
            index_builder = index_path]_vars

\* A thread is inside a `with self._lock:` block.
InCritical(t) == th_pc[t] \notin {"idle", "acquire"}

\* The lists the manager can hold as a whole: none, the walk of a project, or
\* the normalized older document of p2.
CompleteLists ==
    {<<>>} \cup {Tree(d) : d \in ProjectDirs} \cup {NormalizeDoc(OldDoc.items)}

\* C29: the six methods of ShallowIndexManager exclude each other between
\* threads: no two threads are inside a method's body at once, so while a
\* build_index is between the write of the document and the update of the
\* in-memory list no other thread is inside any method; _file_list changes
\* only in a step of the thread that holds the lock; get_file_list and
\* find_files return what one complete list (the one installed at that time)
\* gives; and the returned list is the caller's own: appending to it leaves
\* the manager's list as it was.
C29_MethodsMutuallyExclusive ==
    /\ [](\A t, u \in Threads : (t # u /\ InCritical(t)) => ~InCritical(u))
    /\ [](\A t \in Threads : InCritical(t) => th_lock = t)
    /\ [][/\ file_list' # file_list =>
                /\ th_lock \in Threads
                /\ th_pc[th_lock] \in {"b_assign", "l_assign", "c_file_list"}
                /\ th_pc'[th_lock] = "idle"
          /\ \A t \in Threads :
                /\ (th_pc[t] = "get_file_list" /\ th_pc'[t] = "idle") =>
                       /\ OrEmpty(file_list) \in CompleteLists
                       /\ th_ret'[t].list.items = OrEmpty(file_list)
                /\ (th_pc[t] = "f_match" /\ th_pc'[t] = "idle") =>
                       /\ OrEmpty(file_list) \in CompleteLists
                       /\ LET result == FindFilesIn(OrEmpty(file_list), th_call[t].pattern)
                          IN  /\ th_ret'[t].list.items = result.files
                              /\ th_ret'[t].match_type = result.match_type
                /\ (th_pc[t] = "idle" /\ th_pc'[t] = "idle" /\ th_ret'[t] # th_ret[t]) =>
                       file_list' = file_list]_vars

\* A build_index has written the document of p1 and has not yet updated the
\* list, while the other thread waits at the lock of find_files.
C29_Witness ==
    /\ th_pc["t1"] = "b_assign"
    /\ disk["p1"] = DumpDoc(Tree("p1"))
    /\ file_list # SomeList(Tree("p1"))
    /\ th_pc["t2"] = "acquire"
    /\ th_call["t2"].op = "find_files"

====
